---------------------------- MODULE Spec2Model ----------------------------
(***************************************************************************)
(* The benchmark evaluation engine of scripts/evaluate_results_solution.py *)
(* (class BenchmarkEvaluator and the module-level helpers it uses).        *)
(*                                                                         *)
(* Texts are tuples of one-character strings, so that lowercasing, accent  *)
(* stripping, punctuation removal, whitespace splitting, substring search  *)
(* and regular-expression search are computed character by character as    *)
(* Python computes them.  Scores are exact fractions [n, d]; a score       *)
(* stored after round(x, 3) is an integer number of thousandths.           *)
(***************************************************************************)
EXTENDS Integers, Sequences, FiniteSets, TLC

VARIABLES
    WEIGHTS,            \* the module-level dict WEIGHTS (hundredths), read at every evaluation
    benchmark_results,  \* self.benchmark_results: the list of benchmark records
    golden_index,       \* self.golden_index: question id -> golden item
    evaluations,        \* self.evaluations: the list of QuestionEvaluation
    pc,                 \* position of main() / of the caller
    idx,                \* run_evaluation's loop position (records consumed so far)
    report,             \* the report export_report wrote (NoReport before)
    summary,            \* what print_summary printed (NoSummary before)
    raised,             \* the exception main() caught ("none" when there is none)
    call                \* the last direct call of a scorer: its inputs and what it returned

vars == <<WEIGHTS, benchmark_results, golden_index, evaluations, pc, idx, report, summary, raised, call>>

(***************************************************************************)
(* Characters                                                              *)
(***************************************************************************)
LowerLetters ==
    {"a","b","c","d","e","f","g","h","i","j","k","l","m",
     "n","o","p","q","r","s","t","u","v","w","x","y","z"}

UpperLetters ==
    {"A","B","C","D","E","F","G","H","I","J","K","L","M",
     "N","O","P","Q","R","S","T","U","V","W","X","Y","Z"}

Digits == {"0","1","2","3","4","5","6","7","8","9"}

\* str.lower() on one character
LowerMap ==
    [c \in UpperLetters \cup {"É", "È", "À", "Ç"} |->
        CASE c = "A" -> "a" [] c = "B" -> "b" [] c = "C" -> "c" [] c = "D" -> "d"
          [] c = "E" -> "e" [] c = "F" -> "f" [] c = "G" -> "g" [] c = "H" -> "h"
          [] c = "I" -> "i" [] c = "J" -> "j" [] c = "K" -> "k" [] c = "L" -> "l"
          [] c = "M" -> "m" [] c = "N" -> "n" [] c = "O" -> "o" [] c = "P" -> "p"
          [] c = "Q" -> "q" [] c = "R" -> "r" [] c = "S" -> "s" [] c = "T" -> "t"
          [] c = "U" -> "u" [] c = "V" -> "v" [] c = "W" -> "w" [] c = "X" -> "x"
          [] c = "Y" -> "y" [] c = "Z" -> "z"
          [] c = "É" -> "é" [] c = "È" -> "è" [] c = "À" -> "à" [] c = "Ç" -> "ç"]

\* unicodedata.normalize('NFD', c) with the combining marks (category Mn) dropped
AccentMap ==
    [c \in {"é", "è", "ê", "à", "â", "ç", "ù", "ô", "î", "É", "È", "À", "Ç"} |->
        CASE c \in {"é", "è", "ê"} -> "e"
          [] c \in {"à", "â"} -> "a"
          [] c = "ç" -> "c" [] c = "ù" -> "u" [] c = "ô" -> "o" [] c = "î" -> "i"
          [] c \in {"É", "È"} -> "E" [] c = "À" -> "A" [] c = "Ç" -> "C"]

LowerChar(c) == IF c \in DOMAIN LowerMap THEN LowerMap[c] ELSE c

StripAccent(c) == IF c \in DOMAIN AccentMap THEN AccentMap[c] ELSE c

\* the regular-expression class \w (Unicode letters, digits and the underscore)
IsWordChar(c) ==
    c \in LowerLetters \cup UpperLetters \cup Digits \cup DOMAIN AccentMap \cup {"_"}

\* the regular-expression class \s, and what str.split() and str.strip() take for blank
IsSpace(c) == c \in {" ", "\n", "\t"}

(***************************************************************************)
(* Strings                                                                 *)
(***************************************************************************)
\* text.lower()
Lower(text) == [i \in 1..Len(text) |-> LowerChar(text[i])]

\* text.split(): the maximal runs of non-blank characters, from left to right
Split(text) ==
    LET starts == {i \in 1..Len(text) :
                      ~IsSpace(text[i]) /\ (i = 1 \/ IsSpace(text[i - 1]))}
        \* the k-th word's first position, and the last position of the word starting at i
        StartOf(k) == CHOOSE i \in starts : Cardinality({j \in starts : j < i}) = k - 1
        EndOf(i) == CHOOSE j \in i..Len(text) :
                       /\ \A m \in i..j : ~IsSpace(text[m])
                       /\ (j = Len(text) \/ IsSpace(text[j + 1]))
    IN  [k \in 1..Cardinality(starts) |-> SubSeq(text, StartOf(k), EndOf(StartOf(k)))]

\* ' '.join(words)
RECURSIVE Join(_)
Join(words) ==
    IF words = <<>> THEN <<>>
    ELSE IF Len(words) = 1 THEN words[1]
    ELSE words[1] \o <<" ">> \o Join(Tail(words))

\* text.strip()
Strip(text) ==
    LET keep == {i \in 1..Len(text) : ~IsSpace(text[i])}
    IN  IF keep = {} THEN <<>>
        ELSE SubSeq(text, CHOOSE i \in keep : \A j \in keep : i <= j,
                          CHOOSE i \in keep : \A j \in keep : j <= i)

\* text[:n]
Prefix(text, n) == SubSeq(text, 1, IF Len(text) < n THEN Len(text) ELSE n)

\* whether lit occurs in text at position pos (1-based)
OccursAt(text, pos, lit) ==
    /\ pos + Len(lit) - 1 <= Len(text)
    /\ \A k \in 1..Len(lit) : text[pos + k - 1] = lit[k]

\* needle in hay
Contains(hay, needle) == \E pos \in 1..(Len(hay) + 1) : OccursAt(hay, pos, needle)

\* set(words)
SetOf(words) == {words[i] : i \in 1..Len(words)}

(***************************************************************************)
(* normalize_text                                                          *)
(***************************************************************************)
\* a variant of normalize_text that normalises the spaces before it removes the
\* punctuation
NormalizeSpacesFirst(text) ==
    LET lowered == Lower(text)
        unaccented == [i \in 1..Len(lowered) |-> StripAccent(lowered[i])]
        spaced == Join(Split(unaccented))
    IN  [i \in 1..Len(spaced) |->
            IF IsWordChar(spaced[i]) \/ IsSpace(spaced[i]) THEN spaced[i] ELSE " "]

normalize_text(text) ==
    LET lowered == Lower(text)
        unaccented == [i \in 1..Len(lowered) |-> StripAccent(lowered[i])]
        \* re.sub(r'[^\w\s]', ' ', text)
        unpunctuated == [i \in 1..Len(unaccented) |->
                            IF IsWordChar(unaccented[i]) \/ IsSpace(unaccented[i])
                            THEN unaccented[i] ELSE " "]
    IN  Join(Split(unpunctuated))

(***************************************************************************)
(* Regular expressions: a pattern is a tuple of parts, each an alternation *)
(* of literals or ".*" (any run of characters other than a newline).       *)
(***************************************************************************)
Lit(alts) == [dotstar |-> FALSE, alts |-> alts]

DotStar == [dotstar |-> TRUE, alts |-> {}]

\* the positions ".*" can stop at when it starts at pos: it never crosses a newline
DotStarStops(text, pos) ==
    {j \in pos..(Len(text) + 1) : \A k \in pos..(j - 1) : text[k] /= "\n"}

\* whether parts k.. of the pattern match text from position pos on
RECURSIVE MatchFrom(_, _, _, _)
MatchFrom(pattern, k, text, pos) ==
    IF k > Len(pattern) THEN TRUE
    ELSE IF pattern[k].dotstar
         THEN \E j \in DotStarStops(text, pos) : MatchFrom(pattern, k + 1, text, j)
         ELSE \E lit \in pattern[k].alts :
                 /\ OccursAt(text, pos, lit)
                 /\ MatchFrom(pattern, k + 1, text, pos + Len(lit))

\* re.search(pattern, text) is not None
Search(pattern, text) == \E pos \in 1..(Len(text) + 1) : MatchFrom(pattern, 1, text, pos)

PatJeNeSaisPas ==  \* r"je ne (sais|peux) pas"
  <<
    Lit({<<"j", "e", " ", "n", "e", " ">>}),
    Lit({<<"s", "a", "i", "s">>, <<"p", "e", "u", "x">>}),
    Lit({<<" ", "p", "a", "s">>})
  >>

PatPasDInformation ==  \* r"je n'ai pas (d'information|cette information)"
  <<
    Lit({<<"j", "e", " ", "n", "'", "a", "i", " ", "p", "a", "s", " ">>}),
    Lit({<<"d", "'", "i", "n", "f", "o", "r", "m", "a", "t", "i", "o", "n">>, <<"c", "e", "t",
      "t", "e", " ", "i", "n", "f", "o", "r", "m", "a", "t", "i", "o", "n">>})
  >>

PatQuestionSort ==  \* r"(cette|votre) question (ne concerne pas|sort|dépasse)"
  <<
    Lit({<<"c", "e", "t", "t", "e">>, <<"v", "o", "t", "r", "e">>}),
    Lit({<<" ", "q", "u", "e", "s", "t", "i", "o", "n", " ">>}),
    Lit({<<"n", "e", " ", "c", "o", "n", "c", "e", "r", "n", "e", " ", "p", "a", "s">>, <<"s",
      "o", "r", "t">>, <<"d", "é", "p", "a", "s", "s", "e">>})
  >>

PatHorsDomaine ==  \* r"hors (de mon|du) (domaine|périmètre|champ)"
  <<
    Lit({<<"h", "o", "r", "s", " ">>}),
    Lit({<<"d", "e", " ", "m", "o", "n">>, <<"d", "u">>}),
    Lit({<<" ">>}),
    Lit({<<"d", "o", "m", "a", "i", "n", "e">>, <<"p", "é", "r", "i", "m", "è", "t", "r", "e">>,
      <<"c", "h", "a", "m", "p">>})
  >>

PatPasEnMesure ==  \* r"pas en mesure de (répondre|vous aider)"
  <<
    Lit({<<"p", "a", "s", " ", "e", "n", " ", "m", "e", "s", "u", "r", "e", " ", "d", "e", " "
      >>}),
    Lit({<<"r", "é", "p", "o", "n", "d", "r", "e">>, <<"v", "o", "u", "s", " ", "a", "i", "d",
      "e", "r">>})
  >>

PatDesole ==  \* r"(désolé|malheureusement).*(pas|impossible)"
  <<
    Lit({<<"d", "é", "s", "o", "l", "é">>, <<"m", "a", "l", "h", "e", "u", "r", "e", "u", "s",
      "e", "m", "e", "n", "t">>}),
    DotStar,
    Lit({<<"p", "a", "s">>, <<"i", "m", "p", "o", "s", "s", "i", "b", "l", "e">>})
  >>

PatNeDisposePas ==  \* r"ne (dispose|possède) pas (d'information|de données)"
  <<
    Lit({<<"n", "e", " ">>}),
    Lit({<<"d", "i", "s", "p", "o", "s", "e">>, <<"p", "o", "s", "s", "è", "d", "e">>}),
    Lit({<<" ", "p", "a", "s", " ">>}),
    Lit({<<"d", "'", "i", "n", "f", "o", "r", "m", "a", "t", "i", "o", "n">>, <<"d", "e", " ",
      "d", "o", "n", "n", "é", "e", "s">>})
  >>

PatFAQ ==  \* r"FAQ.*ne (couvre|contient|traite) pas"
  <<
    Lit({<<"F", "A", "Q">>}),
    DotStar,
    Lit({<<"n", "e", " ">>}),
    Lit({<<"c", "o", "u", "v", "r", "e">>, <<"c", "o", "n", "t", "i", "e", "n", "t">>, <<"t",
      "r", "a", "i", "t", "e">>}),
    Lit({<<" ", "p", "a", "s">>})
  >>

PatAucuneInformation ==  \* r"aucune information (disponible|trouvée)"
  <<
    Lit({<<"a", "u", "c", "u", "n", "e", " ", "i", "n", "f", "o", "r", "m", "a", "t", "i", "o",
      "n", " ">>}),
    Lit({<<"d", "i", "s", "p", "o", "n", "i", "b", "l", "e">>, <<"t", "r", "o", "u", "v", "é",
      "e">>})
  >>

IGNORANCE_PATTERNS ==
    <<PatJeNeSaisPas, PatPasDInformation, PatQuestionSort, PatHorsDomaine, PatPasEnMesure,
      PatDesole, PatNeDisposePas, PatFAQ, PatAucuneInformation>>

(***************************************************************************)
(* Numbers: Python floats are modelled by exact fractions [n, d], d > 0.   *)
(* round(x, 3) gives an integer number of thousandths; Python rounds the   *)
(* half-way case to the even neighbour.                                    *)
(***************************************************************************)
RECURSIVE Gcd(_, _)
Gcd(a, b) == IF b = 0 THEN a ELSE Gcd(b, a % b)

Frac(n, d) == LET g == Gcd(n, d) IN [n |-> n \div g, d |-> d \div g]

Zero == [n |-> 0, d |-> 1]

One == [n |-> 1, d |-> 1]

FracAdd(f, g) == Frac(f.n * g.d + g.n * f.d, f.d * g.d)

FracMul(f, g) == Frac(f.n * g.n, f.d * g.d)

FracLess(f, g) == f.n * g.d < g.n * f.d

FracMax(f, g) == IF FracLess(f, g) THEN g ELSE f

FracMin(f, g) == IF FracLess(g, f) THEN g ELSE f

\* round(a / b) for a >= 0 and b > 0
RoundDiv(a, b) ==
    LET q == a \div b
        r == a % b
    IN  IF 2 * r < b THEN q
        ELSE IF 2 * r > b THEN q + 1
        ELSE IF q % 2 = 0 THEN q ELSE q + 1

\* round(x, 3), in thousandths
Round3(f) == RoundDiv(1000 * f.n, f.d)

\* round(f, 2), in hundredths
Round2(f) == RoundDiv(100 * f.n, f.d)

\* a stored score (thousandths) as a fraction
Milli(m) == Frac(m, 1000)

(***************************************************************************)
(* Optional values: None, or an absent dictionary key                      *)
(***************************************************************************)
None == [present |-> FALSE, text |-> <<>>]

Some(text) == [present |-> TRUE, text |-> text]

\* Python's truth value of an optional text: None and "" are false
Truthy(opt) == opt.present /\ opt.text /= <<>>

(***************************************************************************)
(* Module-level configuration                                              *)
(***************************************************************************)
\* WEIGHTS as the source sets it, in hundredths
SOURCE_WEIGHTS ==
    [exactitude |-> 30, pertinence |-> 20, absence_hallucination |-> 20,
     latence |-> 15, aveu_ignorance |-> 15]

LATENCY_THRESHOLDS == [excellent |-> 500, bon |-> 1000, acceptable |-> 2000]

(***************************************************************************)
(* _detect_ignorance                                                       *)
(***************************************************************************)
_detect_ignorance(answer) ==
    LET normalized == Lower(answer)
    IN  \E i \in 1..Len(IGNORANCE_PATTERNS) : Search(IGNORANCE_PATTERNS[i], normalized)

(***************************************************************************)
(* evaluate_exactitude                                                     *)
(***************************************************************************)
\* a variant of evaluate_exactitude that looks for the keywords as they are written,
\* without normalizing them
ExactitudeRawKeywords(answer, expected_keywords) ==
    IF expected_keywords = <<>>
    THEN [score |-> One, details |-> [message |-> "Pas de mots-clés à vérifier"]]
    ELSE LET IsFound(keyword) == Contains(normalize_text(answer), keyword)
             IsMissing(keyword) == ~IsFound(keyword)
             found_keywords == SelectSeq(expected_keywords, IsFound)
         IN  [score |-> Frac(Len(found_keywords), Len(expected_keywords)),
              details |-> [keywords_found |-> found_keywords,
                           keywords_missing |-> SelectSeq(expected_keywords, IsMissing),
                           total_expected |-> Len(expected_keywords),
                           total_found |-> Len(found_keywords)]]

evaluate_exactitude(answer, expected_keywords) ==
    IF expected_keywords = <<>>
    THEN [score |-> One, details |-> [message |-> "Pas de mots-clés à vérifier"]]
    ELSE LET normalized_answer == normalize_text(answer)
             IsFound(keyword) == Contains(normalized_answer, normalize_text(keyword))
             IsMissing(keyword) == ~IsFound(keyword)
             found_keywords == SelectSeq(expected_keywords, IsFound)
             missing_keywords == SelectSeq(expected_keywords, IsMissing)
         IN  [score |-> Frac(Len(found_keywords), Len(expected_keywords)),
              details |-> [keywords_found |-> found_keywords,
                           keywords_missing |-> missing_keywords,
                           total_expected |-> Len(expected_keywords),
                           total_found |-> Len(found_keywords)]]

(***************************************************************************)
(* evaluate_pertinence                                                     *)
(***************************************************************************)
stop_words ==
    {<<"l", "e">>, <<"l", "a">>, <<"l", "e", "s">>, <<"u", "n">>, <<"u", "n", "e">>, <<"d", "e"
      >>, <<"d", "u">>, <<"d", "e", "s">>, <<"e", "t">>, <<"o", "u">>, <<"a">>, <<"e", "s", "t"
      >>, <<"s", "o", "n", "t">>, <<"p", "o", "u", "r">>, <<"d", "a", "n", "s">>, <<"e", "n">>,
      <<"a", "u">>, <<"a", "u", "x">>, <<"c", "e">>, <<"c", "e", "t", "t", "e">>, <<"c", "e",
      "s">>, <<"m", "o", "n">>, <<"m", "a">>, <<"m", "e", "s">>, <<"s", "o", "n">>, <<"s", "a"
      >>, <<"s", "e", "s">>, <<"c", "o", "m", "m", "e", "n", "t">>, <<"q", "u", "e">>, <<"q",
      "u", "i">>, <<"q", "u", "o", "i">>}

\* a variant of PertinenceOverlap whose score is not raised to 0.3
PertinenceOverlapNoFloor(answer, question) ==
    LET question_words == SetOf(Split(normalize_text(question))) \ stop_words
        answer_words == SetOf(Split(normalize_text(answer))) \ stop_words
        overlap_ratio == Frac(Cardinality(question_words \cap answer_words),
                              Cardinality(question_words))
        length_score == FracMin(One, Frac(Len(answer), 100))
    IN  IF question_words = {}
        THEN [score |-> Frac(7, 10),
              details |-> [reason |-> "Impossible d'évaluer (question trop courte)"]]
        ELSE [score |-> FracMin(One, FracAdd(FracMul(Frac(1, 2), overlap_ratio),
                                             FracMul(Frac(1, 2), length_score))),
              details |-> [overlap_words |-> question_words \cap answer_words,
                           overlap_ratio |-> Round2(overlap_ratio),
                           answer_length |-> Len(answer)]]

\* the in-scope rules once the answer is neither an ignorance admission nor too
\* short: the overlap of the non-stop words of the question with the answer
PertinenceOverlap(answer, question) ==
    LET question_words == SetOf(Split(normalize_text(question))) \ stop_words
        answer_words == SetOf(Split(normalize_text(answer))) \ stop_words
        overlap == Cardinality(question_words \cap answer_words)
        overlap_ratio == Frac(overlap, Cardinality(question_words))
        length_score == FracMin(One, Frac(Len(answer), 100))
        score == FracAdd(FracMul(Frac(1, 2), overlap_ratio), FracMul(Frac(1, 2), length_score))
    IN  IF question_words = {}
        THEN [score |-> Frac(7, 10),
              details |-> [reason |-> "Impossible d'évaluer (question trop courte)"]]
        ELSE [score |-> FracMax(Frac(3, 10), FracMin(One, score)),
              details |-> [overlap_words |-> question_words \cap answer_words,
                           overlap_ratio |-> Round2(overlap_ratio),
                           answer_length |-> Len(answer)]]

\* not answer or len(answer.strip()) < 10
TooShort(answer) == answer = <<>> \/ Len(Strip(answer)) < 10

\* a variant of evaluate_pertinence that tests the length of an in-scope answer
\* before it tests the ignorance admission
PertinenceLengthFirst(answer, question, question_type) ==
    IF question_type = "hors_sujet"
    THEN IF _detect_ignorance(answer)
         THEN [score |-> One,
               details |-> [reason |-> "Aveu d'ignorance approprié pour question hors sujet"]]
         ELSE [score |-> Frac(2, 10),
               details |-> [reason |-> "Réponse donnée pour une question hors sujet"]]
    ELSE IF TooShort(answer)
    THEN [score |-> Frac(1, 10), details |-> [reason |-> "Réponse trop courte ou vide"]]
    ELSE IF _detect_ignorance(answer)
    THEN [score |-> Frac(3, 10), details |-> [reason |-> "Aveu d'ignorance inapproprié"]]
    ELSE PertinenceOverlap(answer, question)

evaluate_pertinence(answer, question, question_type) ==
    IF question_type = "hors_sujet"
    THEN IF _detect_ignorance(answer)
         THEN [score |-> One,
               details |-> [reason |-> "Aveu d'ignorance approprié pour question hors sujet"]]
         ELSE [score |-> Frac(2, 10),
               details |-> [reason |-> "Réponse donnée pour une question hors sujet"]]
    ELSE IF _detect_ignorance(answer)
    THEN [score |-> Frac(3, 10), details |-> [reason |-> "Aveu d'ignorance inapproprié"]]
    ELSE IF TooShort(answer)
    THEN [score |-> Frac(1, 10), details |-> [reason |-> "Réponse trop courte ou vide"]]
    ELSE PertinenceOverlap(answer, question)
(***************************************************************************)
(* evaluate_hallucination                                                  *)
(***************************************************************************)
\* [.\s]
IsSeparator(c) == c = "." \/ IsSpace(c)

\* the characters of [a-z] and of [^\s]
InClass(class, c) ==
    CASE class = "alpha" -> c \in LowerLetters
      [] class = "nonspace" -> ~IsSpace(c)

\* the end (exclusive) of the longest run of characters of a class from pos on
RunEnd(text, pos, class) ==
    CHOOSE j \in pos..(Len(text) + 1) :
        /\ \A m \in pos..(j - 1) : InClass(class, text[m])
        /\ (j = Len(text) + 1 \/ ~InClass(class, text[j]))

\* r'\d{2}[.\s]?\d{2}[.\s]?\d{2}[.\s]?\d{2}[.\s]?\d{2}' from pos, `groups` pairs of
\* digits still to read: the end (exclusive) of the match, or 0 when there is none
RECURSIVE PhoneEnd(_, _, _)
PhoneEnd(text, pos, groups) ==
    IF ~(pos + 1 <= Len(text) /\ text[pos] \in Digits /\ text[pos + 1] \in Digits) THEN 0
    ELSE IF groups = 1 THEN pos + 2
    ELSE IF pos + 2 <= Len(text) /\ IsSeparator(text[pos + 2])
         THEN PhoneEnd(text, pos + 3, groups - 1)
         ELSE PhoneEnd(text, pos + 2, groups - 1)

LitWwwDot ==  \* "www."
    <<"w", "w", "w", ".">>

LitHttp ==  \* "http"
    <<"h", "t", "t", "p">>

LitColonSlashSlash ==  \* "://"
    <<":", "/", "/">>

\* r'www\.[a-z]+\.[a-z]+' from pos
DomainEnd(text, pos) ==
    IF ~OccursAt(text, pos, LitWwwDot) THEN 0
    ELSE LET first == RunEnd(text, pos + 4, "alpha")
         IN  IF first = pos + 4 \/ ~OccursAt(text, first, <<".">>) THEN 0
             ELSE LET second == RunEnd(text, first + 1, "alpha")
                  IN  IF second = first + 1 THEN 0 ELSE second

\* r'http[s]?://[^\s]+' from pos
UrlEnd(text, pos) ==
    IF ~OccursAt(text, pos, LitHttp) THEN 0
    ELSE LET scheme == IF OccursAt(text, pos + 4, <<"s">> \o LitColonSlashSlash)
                       THEN pos + 5
                       ELSE IF OccursAt(text, pos + 4, LitColonSlashSlash) THEN pos + 4 ELSE 0
         IN  IF scheme = 0 THEN 0
             ELSE LET rest == RunEnd(text, scheme + 3, "nonspace")
                  IN  IF rest = scheme + 3 THEN 0 ELSE rest

suspicious_patterns == <<"phone", "domain", "url">>

MatchEnd(pattern, text, pos) ==
    CASE pattern = "phone" -> PhoneEnd(text, pos, 5)
      [] pattern = "domain" -> DomainEnd(text, pos)
      [] pattern = "url" -> UrlEnd(text, pos)

\* re.findall(pattern, text): the non-overlapping matches, scanning from the left
RECURSIVE FindAllFrom(_, _, _)
FindAllFrom(pattern, text, pos) ==
    LET starts == {p \in pos..Len(text) : MatchEnd(pattern, text, p) /= 0}
        first == CHOOSE p \in starts : \A q \in starts : p <= q
    IN  IF starts = {} THEN <<>>
        ELSE <<SubSeq(text, first, MatchEnd(pattern, text, first) - 1)>>
                \o FindAllFrom(pattern, text, MatchEnd(pattern, text, first))

FindAll(pattern, text) == FindAllFrom(pattern, text, 1)

\* a variant of evaluate_hallucination that records a warning for every suspicious
\* match, whether the expected summary contains it or not
HallucinationEveryMatch(answer, expected_summary, question_type) ==
    IF question_type = "hors_sujet"
    THEN IF _detect_ignorance(answer)
         THEN [score |-> One,
               details |-> [reason |-> "Pas de contenu factuel (aveu d'ignorance)"]]
         ELSE [score |-> Frac(3, 10),
               details |-> [reason |->
                               "Contenu factuel sur question hors sujet = risque hallucination"]]
    ELSE LET warnings == FindAll(suspicious_patterns[1], Lower(answer))
                           \o FindAll(suspicious_patterns[2], Lower(answer))
                           \o FindAll(suspicious_patterns[3], Lower(answer))
         IN  [score |-> IF 15 * Len(warnings) > 85 - 30 THEN Frac(3, 10)
                        ELSE Frac(85 - 15 * Len(warnings), 100),
              details |-> [warnings |-> warnings,
                           note |-> "Évaluation heuristique - validation manuelle recommandée"]]

\* a variant of evaluate_hallucination that does not look for an ignorance admission
\* in the answer to an out-of-scope question
HallucinationWithoutAdmission(answer, expected_summary, question_type) ==
    IF question_type = "hors_sujet"
    THEN [score |-> Frac(3, 10),
          details |-> [reason |->
                          "Contenu factuel sur question hors sujet = risque hallucination"]]
    ELSE LET expected_norm == normalize_text(expected_summary)
             IsWarning(match) == ~Contains(expected_norm, normalize_text(match))
             WarningsOf(pattern) == SelectSeq(FindAll(pattern, Lower(answer)), IsWarning)
             warnings == WarningsOf(suspicious_patterns[1])
                           \o WarningsOf(suspicious_patterns[2])
                           \o WarningsOf(suspicious_patterns[3])
             \* max(0.3, 0.85 - len(warnings) * 0.15)
             penalty == 15 * Len(warnings)
             score == IF penalty > 85 - 30 THEN Frac(3, 10) ELSE Frac(85 - penalty, 100)
         IN  [score |-> score,
              details |-> [warnings |-> warnings,
                           note |-> "Évaluation heuristique - validation manuelle recommandée"]]

evaluate_hallucination(answer, expected_summary, question_type) ==
    IF question_type = "hors_sujet"
    THEN IF _detect_ignorance(answer)
         THEN [score |-> One,
               details |-> [reason |-> "Pas de contenu factuel (aveu d'ignorance)"]]
         ELSE [score |-> Frac(3, 10),
               details |-> [reason |->
                               "Contenu factuel sur question hors sujet = risque hallucination"]]
    ELSE LET expected_norm == normalize_text(expected_summary)
             IsWarning(match) == ~Contains(expected_norm, normalize_text(match))
             WarningsOf(pattern) == SelectSeq(FindAll(pattern, Lower(answer)), IsWarning)
             warnings == WarningsOf(suspicious_patterns[1])
                           \o WarningsOf(suspicious_patterns[2])
                           \o WarningsOf(suspicious_patterns[3])
             \* max(0.3, 0.85 - len(warnings) * 0.15)
             penalty == 15 * Len(warnings)
             score == IF penalty > 85 - 30 THEN Frac(3, 10) ELSE Frac(85 - penalty, 100)
         IN  [score |-> score,
              details |-> [warnings |-> warnings,
                           note |-> "Évaluation heuristique - validation manuelle recommandée"]]

(***************************************************************************)
(* evaluate_latence: latency_ms is a fraction [n, d] of milliseconds       *)
(***************************************************************************)
\* latency_ms <= 0
NotPositive(latency_ms) == latency_ms.n <= 0

\* a variant of Below that also accepts the threshold itself
BelowOrEqual(latency_ms, threshold) == latency_ms.n <= threshold * latency_ms.d

\* latency_ms < threshold
Below(latency_ms, threshold) == latency_ms.n < threshold * latency_ms.d

evaluate_latence(latency_ms) ==
    IF NotPositive(latency_ms)
    THEN [score |-> Zero, details |-> [reason |-> "Latence invalide ou erreur"]]
    ELSE IF Below(latency_ms, LATENCY_THRESHOLDS.excellent)
    THEN [score |-> One, details |-> [latency_ms |-> latency_ms, category |-> "excellent"]]
    ELSE IF Below(latency_ms, LATENCY_THRESHOLDS.bon)
    THEN [score |-> Frac(8, 10), details |-> [latency_ms |-> latency_ms, category |-> "bon"]]
    ELSE IF Below(latency_ms, LATENCY_THRESHOLDS.acceptable)
    THEN [score |-> Frac(5, 10),
          details |-> [latency_ms |-> latency_ms, category |-> "acceptable"]]
    ELSE [score |-> Frac(2, 10), details |-> [latency_ms |-> latency_ms, category |-> "lent"]]

(***************************************************************************)
(* evaluate_aveu_ignorance                                                 *)
(***************************************************************************)
\* a variant of evaluate_aveu_ignorance that scores every question type the way it
\* scores an out-of-scope question
AveuIgnoranceAnyType(answer, question_type) ==
    IF _detect_ignorance(answer)
    THEN [score |-> One,
          details |-> [applicable |-> TRUE, detected_ignorance |-> TRUE,
                       reason |-> "Aveu d'ignorance correctement détecté"]]
    ELSE [score |-> Zero,
          details |-> [applicable |-> TRUE, detected_ignorance |-> FALSE,
                       reason |-> "Pas d'aveu d'ignorance pour une question hors sujet"]]

evaluate_aveu_ignorance(answer, question_type) ==
    LET is_ignorance == _detect_ignorance(answer)
    IN  IF question_type /= "hors_sujet"
        THEN [score |-> One,
              details |-> [applicable |-> FALSE, reason |-> "Question dans le périmètre FAQ"]]
        ELSE IF is_ignorance
        THEN [score |-> One,
              details |-> [applicable |-> TRUE, detected_ignorance |-> TRUE,
                           reason |-> "Aveu d'ignorance correctement détecté"]]
        ELSE [score |-> Zero,
              details |-> [applicable |-> TRUE, detected_ignorance |-> FALSE,
                           reason |-> "Pas d'aveu d'ignorance pour une question hors sujet"]]

(***************************************************************************)
(* evaluate_single_result                                                  *)
(***************************************************************************)
\* the golden item of a question id, and the empty dict when the id is unknown
GoldenOf(index, question_id) ==
    IF question_id \in DOMAIN index
    THEN [known |-> TRUE,
          expected_keywords |-> index[question_id].expected_keywords,
          expected_summary |-> index[question_id].expected_answer_summary,
          question |-> Some(index[question_id].question)]
    ELSE [known |-> FALSE, expected_keywords |-> <<>>, expected_summary |-> <<>>,
          question |-> None]

\* a variant of QuestionOf that ignores the record's own question
QuestionOfGoldenOnly(golden, result) ==
    IF golden.known THEN golden.question.text ELSE <<>>

\* golden.get("question", result.get("question", ""))
QuestionOf(golden, result) ==
    IF golden.known THEN golden.question.text
    ELSE IF result.question.present THEN result.question.text ELSE <<>>

\* the five scorers' (score, details) for a record that carries no error
Criteria(index, result) ==
    LET golden == GoldenOf(index, result.question_id)
    IN  [exactitude |-> evaluate_exactitude(result.answer, golden.expected_keywords),
         pertinence |-> evaluate_pertinence(result.answer, QuestionOf(golden, result),
                                            result.question_type),
         hallucination |-> evaluate_hallucination(result.answer, golden.expected_summary,
                                                  result.question_type),
         latence |-> evaluate_latence(result.latency_ms),
         aveu_ignorance |-> evaluate_aveu_ignorance(result.answer, result.question_type)]

\* a variant of WeightedSum that gives every criterion the weight of exactitude
WeightedSumOneWeight(weights, c) ==
    FracMul(Frac(weights.exactitude, 100),
            FracAdd(c.exactitude.score,
              FracAdd(c.pertinence.score,
                FracAdd(c.hallucination.score,
                  FracAdd(c.latence.score, c.aveu_ignorance.score)))))

\* a variant of WeightedSum over the scores as they are stored, rounded to 3 decimals
WeightedSumOfStored(weights, c) ==
    FracAdd(FracMul(Milli(Round3(c.exactitude.score)), Frac(weights.exactitude, 100)),
      FracAdd(FracMul(Milli(Round3(c.pertinence.score)), Frac(weights.pertinence, 100)),
        FracAdd(FracMul(Milli(Round3(c.hallucination.score)),
                        Frac(weights.absence_hallucination, 100)),
          FracAdd(FracMul(Milli(Round3(c.latence.score)), Frac(weights.latence, 100)),
                  FracMul(Milli(Round3(c.aveu_ignorance.score)),
                          Frac(weights.aveu_ignorance, 100))))))

\* a variant of WeightedSum that leaves the hallucination criterion out
WeightedSumWithoutHallucination(weights, c) ==
    FracAdd(FracMul(c.exactitude.score, Frac(weights.exactitude, 100)),
      FracAdd(FracMul(c.pertinence.score, Frac(weights.pertinence, 100)),
        FracAdd(FracMul(c.latence.score, Frac(weights.latence, 100)),
                FracMul(c.aveu_ignorance.score, Frac(weights.aveu_ignorance, 100)))))

\* the weighted sum of the unrounded scores (weights in hundredths)
WeightedSum(weights, c) ==
    FracAdd(FracMul(c.exactitude.score, Frac(weights.exactitude, 100)),
      FracAdd(FracMul(c.pertinence.score, Frac(weights.pertinence, 100)),
        FracAdd(FracMul(c.hallucination.score, Frac(weights.absence_hallucination, 100)),
          FracAdd(FracMul(c.latence.score, Frac(weights.latence, 100)),
                  FracMul(c.aveu_ignorance.score, Frac(weights.aveu_ignorance, 100))))))

\* whether the record takes the error branch: if result.get("error")
IsError(result) == Truthy(result.error)

\* the QuestionEvaluation built on the normal path from the five criteria c:
\* the global score is computed from the unrounded scores, then every score
\* is rounded to three decimals
Evaluated(weights, result, c) ==
    [question_id |-> result.question_id,
     question_type |-> result.question_type,
     strategy |-> result.strategy,
     exactitude_score |-> Round3(c.exactitude.score),
     pertinence_score |-> Round3(c.pertinence.score),
     hallucination_score |-> Round3(c.hallucination.score),
     latence_score |-> Round3(c.latence.score),
     aveu_ignorance_score |-> Round3(c.aveu_ignorance.score),
     score_global |-> Round3(WeightedSum(weights, c)),
     details |-> [exactitude |-> c.exactitude.details,
                  pertinence |-> c.pertinence.details,
                  hallucination |-> c.hallucination.details,
                  latence |-> c.latence.details,
                  aveu_ignorance |-> c.aveu_ignorance.details,
                  answer_preview |-> Prefix(result.answer, 200)]]

\* the QuestionEvaluation of a record in error: every score is zero
Failed(result) ==
    [question_id |-> result.question_id,
     question_type |-> result.question_type,
     strategy |-> result.strategy,
     exactitude_score |-> 0,
     pertinence_score |-> 0,
     hallucination_score |-> 0,
     latence_score |-> 0,
     aveu_ignorance_score |-> 0,
     score_global |-> 0,
     details |-> [error |-> result.error]]

evaluate_single_result(index, weights, result) ==
    IF IsError(result)
    THEN Failed(result)
    ELSE Evaluated(weights, result, Criteria(index, result))

(***************************************************************************)
(* generate_strategy_scores: a dict is a tuple of entries in insertion     *)
(* order, each entry carrying its key                                      *)
(***************************************************************************)
\* a variant of StrategyOrder that opens a group at every evaluation
StrategyOrderWithRepeats(evals) == [k \in 1..Len(evals) |-> evals[k].strategy]

\* the keys of by_strategy, in the order the strategies are first seen
RECURSIVE StrategyOrder(_)
StrategyOrder(evals) ==
    IF evals = <<>> THEN <<>>
    ELSE LET before == StrategyOrder(SubSeq(evals, 1, Len(evals) - 1))
             strategy == evals[Len(evals)].strategy
         IN  IF strategy \in SetOf(before) THEN before ELSE Append(before, strategy)

\* sum(field(e) for e in evals)
RECURSIVE SumOf(_, _)
SumOf(evals, field) ==
    IF evals = <<>> THEN 0
    ELSE evals[1][field] + SumOf(Tail(evals), field)

\* a variant of MeanOf that truncates the mean instead of rounding it
MeanOfTruncated(evals, field) == SumOf(evals, field) \div Len(evals)

\* round(sum(...) / n, 3) over stored scores (thousandths); a mean that falls halfway
\* between two thousandths is rounded to the even one (a float's representation
\* error, which decides such a case in Python, is not modelled)
MeanOf(evals, field) == RoundDiv(SumOf(evals, field), Len(evals))

StrategyScore(strategy, evals) ==
    [strategy |-> strategy,
     exactitude |-> MeanOf(evals, "exactitude_score"),
     pertinence |-> MeanOf(evals, "pertinence_score"),
     absence_hallucination |-> MeanOf(evals, "hallucination_score"),
     latence |-> MeanOf(evals, "latence_score"),
     aveu_ignorance |-> MeanOf(evals, "aveu_ignorance_score"),
     score_global |-> MeanOf(evals, "score_global"),
     nombre_questions |-> Len(evals)]

generate_strategy_scores(evals) ==
    LET order == StrategyOrder(evals)
        by_strategy(s) == SelectSeq(evals, LAMBDA e : e.strategy = s)
    IN  [i \in 1..Len(order) |-> StrategyScore(order[i], by_strategy(order[i]))]

(***************************************************************************)
(* generate_recommendation                                                 *)
(***************************************************************************)
\* a variant of MaxEntry that keeps the last of the entries with the maximal score
RECURSIVE MaxEntryLast(_, _, _)
MaxEntryLast(scores, i, best) ==
    IF i > Len(scores) THEN best
    ELSE MaxEntryLast(scores, i + 1,
                      IF scores[i].score_global >= scores[best].score_global THEN i ELSE best)

\* max(scores.keys(), key=...): the first entry no later entry strictly exceeds
RECURSIVE MaxEntry(_, _, _)
MaxEntry(scores, i, best) ==
    IF i > Len(scores) THEN best
    ELSE MaxEntry(scores, i + 1,
                  IF scores[i].score_global > scores[best].score_global THEN i ELSE best)

best_strategy(scores) == scores[MaxEntry(scores, 2, 1)]

\* the criteria of an entry other than score_global and nombre_questions, in dict order
Criterions ==
    <<"exactitude", "pertinence", "absence_hallucination", "latence", "aveu_ignorance">>

\* a variant of IsStrength that leaves out the value 0.8 itself
IsStrengthAbove(value) == value > 800

IsStrength(value) == value >= 800

IsWeakness(value) == ~IsStrength(value) /\ value < 500

Analysis(entry) ==
    [strategy |-> entry.strategy,
     points_forts |-> SelectSeq(Criterions, LAMBDA c : IsStrength(entry[c])),
     points_faibles |-> SelectSeq(Criterions, LAMBDA c : IsWeakness(entry[c]))]

generate_recommendation(evals) ==
    LET scores == generate_strategy_scores(evals)
        best == best_strategy(scores)
        analysis == [i \in 1..Len(scores) |-> Analysis(scores[i])]
        best_analysis == Analysis(best)
    IN  IF scores = <<>>
        THEN [error |-> "Aucune évaluation disponible"]
        ELSE [strategie_recommandee |-> best.strategy,
              score |-> best.score_global,
              \* the clauses of the justification text
              justification |->
                  <<[clause |-> "meilleur score global", strategy |-> best.strategy,
                     score |-> best.score_global]>>
                  \o (IF best_analysis.points_forts /= <<>>
                      THEN <<[clause |-> "points forts",
                              criteria |-> best_analysis.points_forts]>>
                      ELSE <<>>)
                  \o (IF best_analysis.points_faibles /= <<>>
                      THEN <<[clause |-> "points d'amélioration",
                              criteria |-> best_analysis.points_faibles]>>
                      ELSE <<>>),
              scores_comparatifs |-> scores,
              analyse_par_strategie |-> analysis]

\* whether a value returned by generate_recommendation has the key
HasKey(dict, key) == key \in DOMAIN dict

(***************************************************************************)
(* export_report                                                           *)
(***************************************************************************)
export_report(weights, evals) ==
    [metadata |-> [total_evaluations |-> Len(evals), weights |-> weights],
     scores_par_strategie |-> generate_strategy_scores(evals),
     recommandation |-> generate_recommendation(evals),
     evaluations_detaillees |-> evals]

(***************************************************************************)
(* The data the runs are checked on                                        *)
(***************************************************************************)
QuestionActe ==  \* "Comment obtenir un acte de naissance ?"
    <<"C", "o", "m", "m", "e", "n", "t", " ", "o", "b", "t", "e", "n", "i", "r", " ", "u", "n",
      " ", "a", "c", "t", "e", " ", "d", "e", " ", "n", "a", "i", "s", "s", "a", "n", "c", "e",
      " ", "?">>

QuestionMeteo ==  \* "Quelle est la météo demain ?"
    <<"Q", "u", "e", "l", "l", "e", " ", "e", "s", "t", " ", "l", "a", " ", "m", "é", "t", "é",
      "o", " ", "d", "e", "m", "a", "i", "n", " ", "?">>

QuestionPasseport ==  \* "Quels documents fournir pour renouveler mon passeport biométrique en mairie ?"
    <<"Q", "u", "e", "l", "s", " ", "d", "o", "c", "u", "m", "e", "n", "t", "s", " ", "f", "o",
      "u", "r", "n", "i", "r", " ", "p", "o", "u", "r", " ", "r", "e", "n", "o", "u", "v", "e",
      "l", "e", "r", " ", "m", "o", "n", " ", "p", "a", "s", "s", "e", "p", "o", "r", "t", " ",
      "b", "i", "o", "m", "é", "t", "r", "i", "q", "u", "e", " ", "e", "n", " ", "m", "a", "i",
      "r", "i", "e", " ", "?">>

QuestionQui ==  \* "Qui est-ce ?"
    <<"Q", "u", "i", " ", "e", "s", "t", "-", "c", "e", " ", "?">>

QuestionMairie ==  \* "Où se trouve la mairie ?"
    <<"O", "ù", " ", "s", "e", " ", "t", "r", "o", "u", "v", "e", " ", "l", "a", " ", "m", "a",
      "i", "r", "i", "e", " ", "?">>

KeywordsActe ==  \* "service-public.fr", "mairie"
    <<<<"s", "e", "r", "v", "i", "c", "e", "-", "p", "u", "b", "l", "i", "c", ".", "f", "r">>,
      <<"m", "a", "i", "r", "i", "e">>>>

KeywordsPasseport ==  \* "passeport", "mairie", "photo", "timbre fiscal", "justificatif de domicile", "rendez-vous", "ancien passeport"
    <<<<"p", "a", "s", "s", "e", "p", "o", "r", "t">>, <<"m", "a", "i", "r", "i", "e">>, <<"p",
      "h", "o", "t", "o">>, <<"t", "i", "m", "b", "r", "e", " ", "f", "i", "s", "c", "a", "l">>,
      <<"j", "u", "s", "t", "i", "f", "i", "c", "a", "t", "i", "f", " ", "d", "e", " ", "d",
      "o", "m", "i", "c", "i", "l", "e">>, <<"r", "e", "n", "d", "e", "z", "-", "v", "o", "u",
      "s">>, <<"a", "n", "c", "i", "e", "n", " ", "p", "a", "s", "s", "e", "p", "o", "r", "t"
      >>>>

KeywordsEtatCivil ==  \* "état civil"
    <<<<"é", "t", "a", "t", " ", "c", "i", "v", "i", "l">>>>

\* the expected-keyword lists evaluate_exactitude is called with
KeywordLists == {<<>>, KeywordsActe, KeywordsPasseport, KeywordsEtatCivil}

SummaryActe ==  \* "Demande en mairie ou sur www.service-public.fr"
    <<"D", "e", "m", "a", "n", "d", "e", " ", "e", "n", " ", "m", "a", "i", "r", "i", "e", " ",
      "o", "u", " ", "s", "u", "r", " ", "w", "w", "w", ".", "s", "e", "r", "v", "i", "c", "e",
      "-", "p", "u", "b", "l", "i", "c", ".", "f", "r">>

SummaryPasseport ==  \* "Dossier à déposer en mairie sur rendez-vous"
    <<"D", "o", "s", "s", "i", "e", "r", " ", "à", " ", "d", "é", "p", "o", "s", "e", "r", " ",
      "e", "n", " ", "m", "a", "i", "r", "i", "e", " ", "s", "u", "r", " ", "r", "e", "n", "d",
      "e", "z", "-", "v", "o", "u", "s">>

SummaryEtatCivil ==  \* "Le service de l'état civil"
    <<"L", "e", " ", "s", "e", "r", "v", "i", "c", "e", " ", "d", "e", " ", "l", "'", "é", "t",
      "a", "t", " ", "c", "i", "v", "i", "l">>

SummarySite ==  \* "Voir www.mairie.fr"
    <<"V", "o", "i", "r", " ", "w", "w", "w", ".", "m", "a", "i", "r", "i", "e", ".", "f", "r">>

\* the expected summaries evaluate_hallucination is called with
Summaries == {<<>>, SummaryActe, SummarySite}

\* the golden set (data/golden_set.json): one item per question
GoldenSet ==
    <<[id |-> "EC001", type |-> "normal", question |-> QuestionActe,
       expected_keywords |-> KeywordsActe, expected_answer_summary |-> SummaryActe],
      [id |-> "HS001", type |-> "hors_sujet", question |-> QuestionMeteo,
       expected_keywords |-> <<>>, expected_answer_summary |-> <<>>],
      [id |-> "EC002", type |-> "normal", question |-> QuestionPasseport,
       expected_keywords |-> KeywordsPasseport, expected_answer_summary |-> SummaryPasseport],
      [id |-> "EC003", type |-> "normal", question |-> QuestionQui,
       expected_keywords |-> KeywordsEtatCivil, expected_answer_summary |-> SummaryEtatCivil]>>

\* {q["id"]: q for q in self.golden_set}
GoldenIndex(golden_set) ==
    [id \in {golden_set[i].id : i \in 1..Len(golden_set)} |->
        golden_set[CHOOSE i \in 1..Len(golden_set) :
                      /\ golden_set[i].id = id
                      /\ \A j \in 1..Len(golden_set) : golden_set[j].id = id => j <= i]]

\* a question id no golden item has
UnknownId == "XX999"

AnsEmpty ==  \* ""
    <<>>

AnsOui ==  \* "Oui."
    <<"O", "u", "i", ".">>

AnsOuiPadded ==  \* "   Oui.    "
    <<" ", " ", " ", "O", "u", "i", ".", " ", " ", " ", " ">>

AnsJeNeSaisPas ==  \* "Je ne sais pas."
    <<"J", "e", " ", "n", "e", " ", "s", "a", "i", "s", " ", "p", "a", "s", ".">>

AnsDesolePas ==  \* "Désolépas"
    <<"D", "é", "s", "o", "l", "é", "p", "a", "s">>

AnsFAQ ==  \* "La FAQ ne couvre pas ce sujet"
    <<"L", "a", " ", "F", "A", "Q", " ", "n", "e", " ", "c", "o", "u", "v", "r", "e", " ", "p",
      "a", "s", " ", "c", "e", " ", "s", "u", "j", "e", "t">>

AnsDesoleNewline ==  \* "Désolé,\nc'est impossible."
    <<"D", "é", "s", "o", "l", "é", ",", "\n", "c", "'", "e", "s", "t", " ", "i", "m", "p", "o",
      "s", "s", "i", "b", "l", "e", ".">>

AnsServicePublic ==  \* "Vous pouvez l'obtenir sur service-public.fr ou en mairie."
    <<"V", "o", "u", "s", " ", "p", "o", "u", "v", "e", "z", " ", "l", "'", "o", "b", "t", "e",
      "n", "i", "r", " ", "s", "u", "r", " ", "s", "e", "r", "v", "i", "c", "e", "-", "p", "u",
      "b", "l", "i", "c", ".", "f", "r", " ", "o", "u", " ", "e", "n", " ", "m", "a", "i", "r",
      "i", "e", ".">>

AnsPasseport ==  \* "Documents pour renouveler le passeport biométrique en mairie : voir quels formulaires."
    <<"D", "o", "c", "u", "m", "e", "n", "t", "s", " ", "p", "o", "u", "r", " ", "r", "e", "n",
      "o", "u", "v", "e", "l", "e", "r", " ", "l", "e", " ", "p", "a", "s", "s", "e", "p", "o",
      "r", "t", " ", "b", "i", "o", "m", "é", "t", "r", "i", "q", "u", "e", " ", "e", "n", " ",
      "m", "a", "i", "r", "i", "e", " ", ":", " ", "v", "o", "i", "r", " ", "q", "u", "e", "l",
      "s", " ", "f", "o", "r", "m", "u", "l", "a", "i", "r", "e", "s", ".">>

AnsTelephone ==  \* "Appelez le 01 23 45 67 89 ou consultez www.mairie.fr"
    <<"A", "p", "p", "e", "l", "e", "z", " ", "l", "e", " ", "0", "1", " ", "2", "3", " ", "4",
      "5", " ", "6", "7", " ", "8", "9", " ", "o", "u", " ", "c", "o", "n", "s", "u", "l", "t",
      "e", "z", " ", "w", "w", "w", ".", "m", "a", "i", "r", "i", "e", ".", "f", "r">>

AnsMeteo ==  \* "Il fera beau demain à Paris."
    <<"I", "l", " ", "f", "e", "r", "a", " ", "b", "e", "a", "u", " ", "d", "e", "m", "a", "i",
      "n", " ", "à", " ", "P", "a", "r", "i", "s", ".">>

AnsManyWarnings ==  \* "Appelez le 01 23 45 67 89 ou le 01.23.45.67.90, voir www.mairie.fr et http://exemple.fr/aide"
    <<"A", "p", "p", "e", "l", "e", "z", " ", "l", "e", " ", "0", "1", " ", "2", "3", " ", "4",
      "5", " ", "6", "7", " ", "8", "9", " ", "o", "u", " ", "l", "e", " ", "0", "1", ".", "2",
      "3", ".", "4", "5", ".", "6", "7", ".", "9", "0", ",", " ", "v", "o", "i", "r", " ", "w",
      "w", "w", ".", "m", "a", "i", "r", "i", "e", ".", "f", "r", " ", "e", "t", " ", "h", "t",
      "t", "p", ":", "/", "/", "e", "x", "e", "m", "p", "l", "e", ".", "f", "r", "/", "a", "i",
      "d", "e">>

ErrTimeout ==  \* "timeout"
    <<"t", "i", "m", "e", "o", "u", "t">>

\* the error of a strategy the runner does not have (the name left out)
ErrNonDisponible ==  \* "Stratégie non disponible"
    <<"S", "t", "r", "a", "t", "é", "g", "i", "e", " ", "n", "o", "n", " ", "d", "i", "s", "p",
      "o", "n", "i", "b", "l", "e">>

\* the answer of the RAG strategy when no FAQ is similar enough
AnsPasTrouve ==  \* "Je n'ai pas trouvé d'information pertinente dans notre FAQ."
    <<"J", "e", " ", "n", "'", "a", "i", " ", "p", "a", "s", " ", "t", "r", "o", "u", "v", "é",
      " ", "d", "'", "i", "n", "f", "o", "r", "m", "a", "t", "i", "o", "n", " ", "p", "e", "r",
      "t", "i", "n", "e", "n", "t", "e", " ", "d", "a", "n", "s", " ", "n", "o", "t", "r", "e",
      " ", "F", "A", "Q", ".">>

\* the answer of a strategy whose generation failed
AnsErreur ==  \* "Désolé, une erreur s'est produite."
    <<"D", "é", "s", "o", "l", "é", ",", " ", "u", "n", "e", " ", "e", "r", "r", "e", "u", "r",
      " ", "s", "'", "e", "s", "t", " ", "p", "r", "o", "d", "u", "i", "t", "e", ".">>

Answers ==
    {AnsEmpty, AnsOui, AnsOuiPadded, AnsJeNeSaisPas, AnsDesolePas, AnsFAQ, AnsDesoleNewline,
     AnsServicePublic, AnsPasseport, AnsTelephone, AnsMeteo, AnsManyWarnings}

Questions == {<<>>, QuestionActe, QuestionMeteo, QuestionPasseport, QuestionQui}

\* a text with an underscore, an accent, a digit and punctuation
TextRendezVous ==  \* "Rendez_vous à 9h !"
    <<"R", "e", "n", "d", "e", "z", "_", "v", "o", "u", "s", " ", "à", " ", "9", "h", " ", "!">>

\* the texts normalize_text is called on
Texts == Answers \cup Questions \cup {TextRendezVous}

QuestionTypes == {"normal", "hors_sujet"}

Ms(n) == [n |-> n, d |-> 1]

\* latencies around every threshold, 0.01 ms and 499.99 ms among them
Latencies ==
    {Ms(-1), Ms(0), [n |-> 1, d |-> 100], Ms(300), Ms(499), [n |-> 49999, d |-> 100],
     Ms(500), Ms(999), Ms(1000), Ms(1999), Ms(2000), Ms(3500)}

Errors == {None, Some(<<>>), Some(ErrTimeout)}

Strategies == {"strategy_a_llm", "strategy_b_rag"}

\* every benchmark record a single evaluation is checked on
Records ==
    [question_id : {"EC001", "HS001", "EC002", "EC003", UnknownId},
     strategy : {"strategy_a_llm"},
     answer : Answers,
     latency_ms : {Ms(0), Ms(300), Ms(700), Ms(1500), Ms(2500)},
     question_type : QuestionTypes,
     error : Errors,
     question : {None, Some(QuestionMairie)}]

\* the longest list of benchmark records a run is checked on
MaxResults == 3

\* the records the whole pipeline is checked on, before the strategy is chosen:
\* global scores 1.0, 0.5 and 0.0, a full answer, and an answer with two warnings
PipelineCases ==
    {[question_id |-> "HS001", answer |-> AnsJeNeSaisPas, latency_ms |-> Ms(300),
      question_type |-> "hors_sujet", error |-> None, question |-> Some(QuestionMeteo)],
     [question_id |-> "EC001", answer |-> AnsJeNeSaisPas, latency_ms |-> Ms(700),
      question_type |-> "normal", error |-> None, question |-> Some(QuestionActe)],
     [question_id |-> "EC001", answer |-> AnsEmpty, latency_ms |-> Ms(0),
      question_type |-> "normal", error |-> Some(ErrTimeout), question |-> Some(QuestionActe)],
     [question_id |-> "EC001", answer |-> AnsServicePublic, latency_ms |-> Ms(300),
      question_type |-> "normal", error |-> None, question |-> Some(QuestionActe)],
     [question_id |-> "EC001", answer |-> AnsTelephone, latency_ms |-> Ms(2500),
      question_type |-> "normal", error |-> None, question |-> Some(QuestionActe)]}

PipelineRecords ==
    {[question_id |-> c.question_id, strategy |-> s, answer |-> c.answer,
      latency_ms |-> c.latency_ms, question_type |-> c.question_type, error |-> c.error,
      question |-> c.question] : c \in PipelineCases, s \in Strategies}

\* the lists of at most n records of a set
ResultLists(records, n) == UNION {[1..k -> records] : k \in 0..n}

NoReport == [written |-> FALSE]

NoSummary == [printed |-> FALSE]

NoCall == [fn |-> "none"]

(***************************************************************************)
(* main(): the evaluator is constructed, then run_evaluation, export_csv,  *)
(* export_report and print_summary run in this order; any exception ends   *)
(* the program with exit status 1.                                         *)
(***************************************************************************)
\* the state BenchmarkEvaluator.__init__ leaves, for the benchmark records of the file
Constructed(results) ==
    /\ benchmark_results = results
    /\ golden_index = GoldenIndex(GoldenSet)
    /\ evaluations = <<>>
    /\ pc = "constructed"
    /\ idx = 0
    /\ report = NoReport
    /\ summary = NoSummary
    /\ raised = "none"
    /\ call = NoCall

Init ==
    /\ WEIGHTS = SOURCE_WEIGHTS
    /\ \E results \in ResultLists(PipelineRecords, MaxResults) : Constructed(results)

\* run_evaluation: self.evaluations = []
RunEvaluationStart ==
    /\ pc = "constructed"
    /\ evaluations' = <<>>
    /\ idx' = 0
    /\ pc' = "run_evaluation"
    /\ UNCHANGED <<WEIGHTS, benchmark_results, golden_index, report, summary, raised, call>>

\* a variant of AppendEvaluation that skips a record in error
AppendUnlessError(evals, index, weights, result) ==
    IF IsError(result) THEN evals
    ELSE Append(evals, evaluate_single_result(index, weights, result))

\* a variant of AppendEvaluation that reuses the scores of an earlier evaluation of
\* the same question
AppendCachedByQuestion(evals, index, weights, result) ==
    IF \E k \in 1..Len(evals) : evals[k].question_id = result.question_id
    THEN Append(evals,
                [evals[CHOOSE k \in 1..Len(evals) : evals[k].question_id = result.question_id]
                    EXCEPT !.strategy = result.strategy])
    ELSE Append(evals, evaluate_single_result(index, weights, result))

\* the body of the loop of run_evaluation: the record is evaluated and the evaluation
\* is appended to self.evaluations
AppendEvaluation(evals, index, weights, result) ==
    Append(evals, evaluate_single_result(index, weights, result))

\* run_evaluation: one turn of the loop over self.benchmark_results
RunEvaluationStep ==
    /\ pc = "run_evaluation"
    /\ idx < Len(benchmark_results)
    /\ evaluations' = AppendEvaluation(evaluations, golden_index, WEIGHTS,
                                       benchmark_results[idx + 1])
    /\ idx' = idx + 1
    /\ UNCHANGED <<WEIGHTS, benchmark_results, golden_index, pc, report, summary, raised, call>>

\* a variant of RunEvaluationReturn that leaves the loop at any turn
RunEvaluationReturnEarly ==
    /\ pc = "run_evaluation"
    /\ pc' = "evaluated"
    /\ UNCHANGED <<WEIGHTS, benchmark_results, golden_index, evaluations, idx, report,
                   summary, raised, call>>

\* run_evaluation: the loop is over, the list is returned
RunEvaluationReturn ==
    /\ pc = "run_evaluation"
    /\ idx = Len(benchmark_results)
    /\ pc' = "evaluated"
    /\ UNCHANGED <<WEIGHTS, benchmark_results, golden_index, evaluations, idx, report,
                   summary, raised, call>>

\* export_csv: one row per evaluation, written to a file; the evaluator is not changed
ExportCsv ==
    /\ pc = "evaluated"
    /\ pc' = "csv_exported"
    /\ UNCHANGED <<WEIGHTS, benchmark_results, golden_index, evaluations, idx, report,
                   summary, raised, call>>

ExportReport ==
    /\ pc = "csv_exported"
    /\ report' = [written |-> TRUE, content |-> export_report(WEIGHTS, evaluations)]
    /\ pc' = "report_exported"
    /\ UNCHANGED <<WEIGHTS, benchmark_results, golden_index, evaluations, idx, summary,
                   raised, call>>

\* print_summary: what it prints, and the exception it ends with ("none" when it
\* returns): recommendation['strategie_recommandee'] raises KeyError when the
\* recommendation is the dict {"error": ...}
print_summary(evals) ==
    LET scores == generate_strategy_scores(evals)
        recommendation == generate_recommendation(evals)
    IN  IF HasKey(recommendation, "strategie_recommandee")
        THEN [raised |-> "none",
              printed |-> [printed |-> TRUE,
                           scores |-> scores,
                           strategie_recommandee |-> recommendation.strategie_recommandee,
                           score |-> recommendation.score,
                           justification |-> recommendation.justification]]
        ELSE [raised |-> "KeyError",
              printed |-> [printed |-> TRUE, scores |-> scores]]

\* main() calls print_summary; it catches any exception and exits with status 1
PrintSummary ==
    /\ pc = "report_exported"
    /\ summary' = print_summary(evaluations).printed
    /\ raised' = print_summary(evaluations).raised
    /\ pc' = IF print_summary(evaluations).raised = "none" THEN "done" ELSE "exit_1"
    /\ UNCHANGED <<WEIGHTS, benchmark_results, golden_index, evaluations, idx, report, call>>

Next ==
    \/ RunEvaluationStart
    \/ RunEvaluationStep
    \/ RunEvaluationReturn
    \/ ExportCsv
    \/ ExportReport
    \/ PrintSummary

Spec == Init /\ [][Next]_vars

(***************************************************************************)
(* run_evaluation called again and again on one evaluator: call counts the *)
(* calls                                                                   *)
(***************************************************************************)
MaxCalls == 2

\* a variant of CallRunEvaluation that does not reset the list
CallRunEvaluationKeepingList ==
    /\ pc \in {"constructed", "evaluated"}
    /\ (IF call = NoCall THEN 0 ELSE call.count) < MaxCalls
    /\ call' = [fn |-> "run_evaluation", count |-> (IF call = NoCall THEN 0 ELSE call.count) + 1]
    /\ idx' = 0
    /\ pc' = "run_evaluation"
    /\ UNCHANGED <<WEIGHTS, benchmark_results, golden_index, evaluations, report, summary,
                   raised>>

\* run_evaluation, on a new evaluator or on one that has returned from an earlier
\* call: self.evaluations = []
CallRunEvaluation ==
    /\ pc \in {"constructed", "evaluated"}
    /\ (IF call = NoCall THEN 0 ELSE call.count) < MaxCalls
    /\ call' = [fn |-> "run_evaluation", count |-> (IF call = NoCall THEN 0 ELSE call.count) + 1]
    /\ evaluations' = <<>>
    /\ idx' = 0
    /\ pc' = "run_evaluation"
    /\ UNCHANGED <<WEIGHTS, benchmark_results, golden_index, report, summary, raised>>

NextRepeat ==
    \/ CallRunEvaluation
    \/ RunEvaluationStep
    \/ RunEvaluationReturn

SpecRepeat == Init /\ [][NextRepeat]_vars

(***************************************************************************)
(* One record at a time: main() on a file of one benchmark record, for     *)
(* every record of Records                                                 *)
(***************************************************************************)
InitEval ==
    /\ WEIGHTS = SOURCE_WEIGHTS
    /\ \E result \in Records : Constructed(<<result>>)

SpecEval == InitEval /\ [][Next]_vars

(***************************************************************************)
(* The scorers called directly, each on every input of its own: call holds *)
(* the function called, its arguments and what it returned                 *)
(***************************************************************************)
InitScorers ==
    /\ WEIGHTS = SOURCE_WEIGHTS
    /\ benchmark_results = <<>>
    /\ golden_index = GoldenIndex(GoldenSet)
    /\ evaluations = <<>>
    /\ pc = "constructed"
    /\ idx = 0
    /\ report = NoReport
    /\ summary = NoSummary
    /\ raised = "none"
    /\ call = NoCall

CallDetectIgnorance ==
    /\ call = NoCall
    /\ \E answer \in Answers :
          call' = [fn |-> "_detect_ignorance", answer |-> answer,
                   ret |-> _detect_ignorance(answer)]
    /\ UNCHANGED <<WEIGHTS, benchmark_results, golden_index, evaluations, pc, idx, report,
                   summary, raised>>

CallEvaluateExactitude ==
    /\ call = NoCall
    /\ \E answer \in Answers, expected_keywords \in KeywordLists :
          call' = [fn |-> "evaluate_exactitude", answer |-> answer,
                   expected |-> expected_keywords,
                   ret |-> evaluate_exactitude(answer, expected_keywords)]
    /\ UNCHANGED <<WEIGHTS, benchmark_results, golden_index, evaluations, pc, idx, report,
                   summary, raised>>

CallEvaluatePertinence ==
    /\ call = NoCall
    /\ \E answer \in Answers, question \in Questions, question_type \in QuestionTypes :
          call' = [fn |-> "evaluate_pertinence", answer |-> answer, question |-> question,
                   question_type |-> question_type,
                   ret |-> evaluate_pertinence(answer, question, question_type)]
    /\ UNCHANGED <<WEIGHTS, benchmark_results, golden_index, evaluations, pc, idx, report,
                   summary, raised>>

CallEvaluateHallucination ==
    /\ call = NoCall
    /\ \E answer \in Answers, expected_summary \in Summaries,
          question_type \in QuestionTypes :
          call' = [fn |-> "evaluate_hallucination", answer |-> answer,
                   expected |-> expected_summary, question_type |-> question_type,
                   ret |-> evaluate_hallucination(answer, expected_summary, question_type)]
    /\ UNCHANGED <<WEIGHTS, benchmark_results, golden_index, evaluations, pc, idx, report,
                   summary, raised>>

CallEvaluateLatence ==
    /\ call = NoCall
    /\ \E latency_ms \in Latencies :
          call' = [fn |-> "evaluate_latence", latency_ms |-> latency_ms,
                   ret |-> evaluate_latence(latency_ms)]
    /\ UNCHANGED <<WEIGHTS, benchmark_results, golden_index, evaluations, pc, idx, report,
                   summary, raised>>

\* "unknown" is the type the runner gives a question that has none
CallEvaluateAveuIgnorance ==
    /\ call = NoCall
    /\ \E answer \in Answers, question_type \in QuestionTypes \cup {"unknown"} :
          call' = [fn |-> "evaluate_aveu_ignorance", answer |-> answer,
                   question_type |-> question_type,
                   ret |-> evaluate_aveu_ignorance(answer, question_type)]
    /\ UNCHANGED <<WEIGHTS, benchmark_results, golden_index, evaluations, pc, idx, report,
                   summary, raised>>

CallNormalizeText ==
    /\ call = NoCall
    /\ \E text \in Texts :
          call' = [fn |-> "normalize_text", text |-> text, ret |-> normalize_text(text)]
    /\ UNCHANGED <<WEIGHTS, benchmark_results, golden_index, evaluations, pc, idx, report,
                   summary, raised>>

NextScorers ==
    \/ CallDetectIgnorance
    \/ CallEvaluateExactitude
    \/ CallEvaluatePertinence
    \/ CallEvaluateHallucination
    \/ CallEvaluateLatence
    \/ CallEvaluateAveuIgnorance
    \/ CallNormalizeText

SpecScorers == InitScorers /\ [][NextScorers]_vars

(***************************************************************************)
(* The module configuration: WEIGHTS is a module-level dict that the code  *)
(* reads at every evaluation, so a caller can have changed it before it    *)
(* constructs the evaluator                                                *)
(***************************************************************************)
WeightConfigs ==
    {SOURCE_WEIGHTS,
     [SOURCE_WEIGHTS EXCEPT !.exactitude = 50],
     [SOURCE_WEIGHTS EXCEPT !.latence = 5]}

SumOfWeights(weights) ==
    weights.exactitude + weights.pertinence + weights.absence_hallucination
      + weights.latence + weights.aveu_ignorance

InitConfig ==
    /\ WEIGHTS \in WeightConfigs
    /\ benchmark_results = <<>>
    /\ golden_index = GoldenIndex(<<>>)
    /\ evaluations = <<>>
    /\ pc = "imported"
    /\ idx = 0
    /\ report = NoReport
    /\ summary = NoSummary
    /\ raised = "none"
    /\ call = NoCall

\* BenchmarkEvaluator.__init__: loads the two files and indexes the golden set
Construct ==
    /\ pc = "imported"
    /\ \E results \in ResultLists(PipelineRecords, 1) : benchmark_results' = results
    /\ golden_index' = GoldenIndex(GoldenSet)
    /\ evaluations' = <<>>
    /\ pc' = "constructed"
    /\ UNCHANGED <<WEIGHTS, idx, report, summary, raised, call>>

NextConfig == Construct \/ Next

SpecConfig == InitConfig /\ [][NextConfig]_vars


(***************************************************************************)
(* The benchmark runner: run_benchmark calls every initialised strategy on *)
(* every question of the golden set. call holds the runner's golden set,   *)
(* its strategies and what each strategy call did; benchmark_results is    *)
(* the runner's self.results, the list the evaluator reads.                *)
(***************************************************************************)
\* the longest golden set a benchmark is run on
MaxQuestions == 2

\* the keys of self.strategies, in the order _init_strategies inserts them
StrategyNames == <<"strategy_a_llm", "strategy_b_rag", "strategy_c_qa">>

\* what strategy.answer(question) does: it returns a FAQResponse (with an error when
\* the generation failed inside the strategy), a dict, any other value, or it raises
\* an exception with a message
Outcomes ==
    {[kind |-> "response", answer |-> AnsServicePublic, confidence |-> 900, error |-> None],
     [kind |-> "response", answer |-> AnsErreur, confidence |-> 0, error |-> Some(ErrTimeout)],
     [kind |-> "dict", answer |-> AnsOui, confidence |-> 500, error |-> None],
     [kind |-> "other", answer |-> AnsOui, confidence |-> 0, error |-> None],
     [kind |-> "raise", answer |-> <<>>, confidence |-> 0, error |-> Some(<<>>)],
     [kind |-> "raise", answer |-> <<>>, confidence |-> 0, error |-> Some(ErrTimeout)]}

\* a variant of run_single_question that stores the error a response carries
RunSingleQuestionKeepingError(question, strategy_name, strategies, outcome) ==
    IF strategy_name \notin SetOf(strategies) \/ outcome.kind = "raise"
    THEN [question_id |-> question.id, question |-> Some(question.question),
          question_type |-> question.type, strategy |-> strategy_name, answer |-> <<>>,
          latency_ms |-> Ms(0), confidence |-> None,
          error |-> IF strategy_name \notin SetOf(strategies) THEN Some(ErrNonDisponible)
                    ELSE outcome.error]
    ELSE [question_id |-> question.id, question |-> Some(question.question),
          question_type |-> question.type, strategy |-> strategy_name,
          answer |-> outcome.answer, latency_ms |-> Ms(300),
          confidence |-> IF outcome.kind = "other" THEN None ELSE Some(outcome.confidence),
          error |-> outcome.error]

\* run_single_question: the BenchmarkResult of one strategy on one question; the
\* error of a raised exception is str(e), the elapsed time is 300 ms, and the error a
\* response carries is not read
run_single_question(question, strategy_name, strategies, outcome) ==
    IF strategy_name \notin SetOf(strategies) \/ outcome.kind = "raise"
    THEN [question_id |-> question.id, question |-> Some(question.question),
          question_type |-> question.type, strategy |-> strategy_name, answer |-> <<>>,
          latency_ms |-> Ms(0), confidence |-> None,
          error |-> IF strategy_name \notin SetOf(strategies) THEN Some(ErrNonDisponible)
                    ELSE outcome.error]
    ELSE [question_id |-> question.id, question |-> Some(question.question),
          question_type |-> question.type, strategy |-> strategy_name,
          answer |-> outcome.answer, latency_ms |-> Ms(300),
          confidence |-> IF outcome.kind = "other" THEN None ELSE Some(outcome.confidence),
          error |-> None]

\* the state BenchmarkRunner.__init__ leaves: a golden set, and the strategies whose
\* construction did not fail, at least one
InitRunner ==
    /\ WEIGHTS = SOURCE_WEIGHTS
    /\ benchmark_results = <<>>
    /\ golden_index = GoldenIndex(GoldenSet)
    /\ evaluations = <<>>
    /\ pc = "runner_constructed"
    /\ idx = 0
    /\ report = NoReport
    /\ summary = NoSummary
    /\ raised = "none"
    /\ \E n \in 0..MaxQuestions, available \in SUBSET SetOf(StrategyNames) :
          /\ available /= {}
          /\ call = [fn |-> "run_benchmark",
                     golden_set |-> SubSeq(GoldenSet, 1, n),
                     strategies |-> SelectSeq(StrategyNames, LAMBDA s : s \in available),
                     outcomes |-> <<>>]

\* run_benchmark: self.results = []
RunBenchmarkStart ==
    /\ pc = "runner_constructed"
    /\ benchmark_results' = <<>>
    /\ idx' = 0
    /\ pc' = "run_benchmark"
    /\ UNCHANGED <<WEIGHTS, golden_index, evaluations, report, summary, raised, call>>

\* a variant of RunBenchmarkStep that leaves the loops when a strategy call raises
RunBenchmarkStepStoppingAtRaise ==
    /\ pc = "run_benchmark"
    /\ idx < Len(call.golden_set) * Len(call.strategies)
    /\ \E outcome \in Outcomes :
          /\ benchmark_results' =
                IF outcome.kind = "raise" THEN benchmark_results
                ELSE Append(benchmark_results,
                            run_single_question(
                                call.golden_set[(idx \div Len(call.strategies)) + 1],
                                call.strategies[(idx % Len(call.strategies)) + 1],
                                call.strategies, outcome))
          /\ call' = [call EXCEPT !.outcomes = Append(@, outcome)]
          /\ pc' = IF outcome.kind = "raise" THEN "benchmark_done" ELSE pc
    /\ idx' = idx + 1
    /\ UNCHANGED <<WEIGHTS, golden_index, evaluations, report, summary, raised>>

\* run_benchmark: one turn of the inner loop, the strategies within a question; idx
\* is test_count, so the turn is the one of question idx div n and of strategy idx mod n
RunBenchmarkStep ==
    /\ pc = "run_benchmark"
    /\ idx < Len(call.golden_set) * Len(call.strategies)
    /\ \E outcome \in Outcomes :
          /\ benchmark_results' =
                Append(benchmark_results,
                       run_single_question(
                           call.golden_set[(idx \div Len(call.strategies)) + 1],
                           call.strategies[(idx % Len(call.strategies)) + 1],
                           call.strategies, outcome))
          /\ call' = [call EXCEPT !.outcomes = Append(@, outcome)]
    /\ idx' = idx + 1
    /\ UNCHANGED <<WEIGHTS, golden_index, evaluations, pc, report, summary, raised>>

\* run_benchmark: both loops are over, self.results is returned
RunBenchmarkReturn ==
    /\ pc = "run_benchmark"
    /\ idx = Len(call.golden_set) * Len(call.strategies)
    /\ pc' = "benchmark_done"
    /\ UNCHANGED <<WEIGHTS, benchmark_results, golden_index, evaluations, idx, report,
                   summary, raised, call>>

NextRunner ==
    \/ RunBenchmarkStart
    \/ RunBenchmarkStep
    \/ RunBenchmarkReturn

SpecRunner == InitRunner /\ [][NextRunner]_vars

(***************************************************************************)
(* The FAQ service and its RAG strategy: call holds the service's FAQ base *)
(* and the strategy's top_k and confidence_threshold, and in ret what the  *)
(* latest call was given and what it returned. The embedding model and the *)
(* LLM are outside the program: the similarities and the LLM's success are *)
(* chosen freely.                                                          *)
(***************************************************************************)
\* the cosine similarities the embedding model gives: around the threshold 0.5, and one
\* that round(score, 3) changes
Scores == {Frac(2, 10), Frac(4999, 10000), Frac(5, 10), Frac(9004, 10000)}

\* a variant of _search_similar that sorts the similarities in ascending order
SearchSimilarAscending(faq_base, top_k, similarities) ==
    LET n == Len(faq_base)
        orders == {p \in [1..n -> 1..n] :
                      /\ \A i, j \in 1..n : p[i] = p[j] => i = j
                      /\ \A i \in 1..(n - 1) :
                            ~FracLess(similarities[p[i + 1]], similarities[p[i]])}
        k == IF top_k < n THEN top_k ELSE n
    IN  {[i \in 1..k |-> [faq |-> faq_base[p[i]], score |-> similarities[p[i]]]] :
            p \in orders}

\* _search_similar: every list it can return for the similarities of the question to
\* the FAQ entries; argsort(descending=True) leaves the order of equal similarities
\* open, and [:top_k] keeps at most top_k indices
_search_similar(faq_base, top_k, similarities) ==
    LET n == Len(faq_base)
        orders == {p \in [1..n -> 1..n] :
                      /\ \A i, j \in 1..n : p[i] = p[j] => i = j
                      /\ \A i \in 1..(n - 1) :
                            ~FracLess(similarities[p[i]], similarities[p[i + 1]])}
        k == IF top_k < n THEN top_k ELSE n
    IN  {[i \in 1..k |-> [faq |-> faq_base[p[i]], score |-> similarities[p[i]]]] :
            p \in orders}

\* a variant of _generate_answer that also gives the fixed answer at the threshold
GenerateAnswerAtThreshold(confidence_threshold, similar_faqs, failure) ==
    LET best_score == IF similar_faqs /= <<>> THEN similar_faqs[1].score ELSE Zero
        failed == [answer |-> AnsErreur, confidence |-> Zero,
                   sources |-> [given |-> FALSE, items |-> <<>>],
                   error |-> Some(ErrTimeout)]
    IN  IF failure = "search" THEN [response |-> failed, llm_calls |-> 0]
        ELSE IF ~FracLess(confidence_threshold, best_score)
        THEN [response |-> [answer |-> AnsPasTrouve, confidence |-> best_score,
                            sources |-> [given |-> TRUE, items |-> <<>>], error |-> None],
              llm_calls |-> 0]
        ELSE IF failure = "context" THEN [response |-> failed, llm_calls |-> 0]
        ELSE IF failure = "llm" THEN [response |-> failed, llm_calls |-> 1]
        ELSE [response |->
                  [answer |-> AnsServicePublic, confidence |-> best_score,
                   sources |-> [given |-> TRUE,
                                items |-> [i \in 1..Len(similar_faqs) |->
                                              [id |-> similar_faqs[i].faq.id,
                                               question |-> similar_faqs[i].faq.question,
                                               score |-> Round3(similar_faqs[i].score)]]],
                   error |-> None],
              llm_calls |-> 1]

\* _generate_answer, for the list _search_similar returns and for the call that raises,
\* if one does ("search", "context" for _build_context on a FAQ without answer, "llm",
\* or "none"): the FAQResponse and the number of calls of the LLM. The response of the
\* except clause is built without sources.
_generate_answer(confidence_threshold, similar_faqs, failure) ==
    LET best_score == IF similar_faqs /= <<>> THEN similar_faqs[1].score ELSE Zero
        failed == [answer |-> AnsErreur, confidence |-> Zero,
                   sources |-> [given |-> FALSE, items |-> <<>>],
                   error |-> Some(ErrTimeout)]
    IN  IF failure = "search" THEN [response |-> failed, llm_calls |-> 0]
        ELSE IF FracLess(best_score, confidence_threshold)
        THEN [response |-> [answer |-> AnsPasTrouve, confidence |-> best_score,
                            sources |-> [given |-> TRUE, items |-> <<>>], error |-> None],
              llm_calls |-> 0]
        ELSE IF failure = "context" THEN [response |-> failed, llm_calls |-> 0]
        ELSE IF failure = "llm" THEN [response |-> failed, llm_calls |-> 1]
        ELSE [response |->
                  [answer |-> AnsServicePublic, confidence |-> best_score,
                   sources |-> [given |-> TRUE,
                                items |-> [i \in 1..Len(similar_faqs) |->
                                              [id |-> similar_faqs[i].faq.id,
                                               question |-> similar_faqs[i].faq.question,
                                               score |-> Round3(similar_faqs[i].score)]]],
                   error |-> None],
              llm_calls |-> 1]

\* a variant of get_faq_by_id that does not look at the first entry of the base
GetFaqByIdAfterFirst(faq_base, faq_id) ==
    IF \E i \in 2..Len(faq_base) : faq_base[i].id = faq_id
    THEN [found |-> TRUE,
          faq |-> faq_base[CHOOSE i \in 2..Len(faq_base) :
                              /\ faq_base[i].id = faq_id
                              /\ \A j \in 2..Len(faq_base) : faq_base[j].id = faq_id => i <= j]]
    ELSE [found |-> FALSE]

\* FAQService.get_faq_by_id: the first entry with the id, or None
get_faq_by_id(faq_base, faq_id) ==
    IF \E i \in 1..Len(faq_base) : faq_base[i].id = faq_id
    THEN [found |-> TRUE,
          faq |-> faq_base[CHOOSE i \in 1..Len(faq_base) :
                              /\ faq_base[i].id = faq_id
                              /\ \A j \in 1..Len(faq_base) : faq_base[j].id = faq_id => i <= j]]
    ELSE [found |-> FALSE]

\* the route GET /faq/{faq_id}: 404 when the service returns None, the FAQItem otherwise
route_get_faq_by_id(faq_base, faq_id) ==
    LET faq == get_faq_by_id(faq_base, faq_id)
    IN  IF ~faq.found THEN [status |-> 404]
        ELSE [status |-> 200, id |-> faq.faq.id, question |-> faq.faq.question,
              answer |-> faq.faq.answer]

\* the service and its strategy once constructed: a FAQ base of one to three entries,
\* two entries with the same id in one of them
InitService ==
    /\ WEIGHTS = SOURCE_WEIGHTS
    /\ benchmark_results = <<>>
    /\ golden_index = GoldenIndex(GoldenSet)
    /\ evaluations = <<>>
    /\ pc = "service_ready"
    /\ idx = 0
    /\ report = NoReport
    /\ summary = NoSummary
    /\ raised = "none"
    /\ \E n \in 1..3, top_k \in {0, 2, 3}, same \in BOOLEAN :
          call = [fn |-> "FAQService",
                  faq_base |-> [i \in 1..n |->
                                   [id |-> IF same /\ i = 3 THEN GoldenSet[1].id
                                           ELSE GoldenSet[i].id,
                                    question |-> GoldenSet[i].question,
                                    answer |-> AnsServicePublic]],
                  top_k |-> top_k,
                  confidence_threshold |-> Frac(5, 10),
                  ret |-> NoCall]

CallSearchSimilar ==
    /\ pc = "service_ready"
    /\ call.ret = NoCall
    /\ \E similarities \in [1..Len(call.faq_base) -> Scores] :
          \E results \in _search_similar(call.faq_base, call.top_k, similarities) :
              call' = [call EXCEPT !.ret = [fn |-> "_search_similar",
                                            similarities |-> similarities,
                                            results |-> results]]
    /\ UNCHANGED <<WEIGHTS, benchmark_results, golden_index, evaluations, pc, idx, report,
                   summary, raised>>

CallGenerateAnswer ==
    /\ pc = "service_ready"
    /\ call.ret = NoCall
    /\ \E similarities \in [1..Len(call.faq_base) -> Scores],
          failure \in {"none", "search", "context", "llm"} :
          \E similar_faqs \in _search_similar(call.faq_base, call.top_k, similarities) :
              call' = [call EXCEPT !.ret =
                          [fn |-> "_generate_answer", similar_faqs |-> similar_faqs,
                           failure |-> failure,
                           out |-> _generate_answer(call.confidence_threshold, similar_faqs,
                                                    failure)]]
    /\ UNCHANGED <<WEIGHTS, benchmark_results, golden_index, evaluations, pc, idx, report,
                   summary, raised>>

\* a lookup, the first one or one after other lookups
CallGetFaqById ==
    /\ pc = "service_ready"
    /\ call.ret = NoCall \/ call.ret.fn = "get_faq_by_id"
    /\ \E faq_id \in {GoldenSet[i].id : i \in 1..Len(GoldenSet)} \cup {UnknownId} :
          call' = [call EXCEPT !.ret =
                      [fn |-> "get_faq_by_id", faq_id |-> faq_id,
                       faq |-> get_faq_by_id(call.faq_base, faq_id),
                       response |-> route_get_faq_by_id(call.faq_base, faq_id)]]
    /\ UNCHANGED <<WEIGHTS, benchmark_results, golden_index, evaluations, pc, idx, report,
                   summary, raised>>

NextService ==
    \/ CallSearchSimilar
    \/ CallGenerateAnswer
    \/ CallGetFaqById

SpecService == InitService /\ [][NextService]_vars

(***************************************************************************)
(* Properties                                                              *)
(***************************************************************************)
Abs(x) == IF x < 0 THEN -x ELSE x

\* whether the five criterion scores and the global score of an evaluation are 0
AllZero(e) ==
    /\ e.exactitude_score = 0
    /\ e.pertinence_score = 0
    /\ e.hallucination_score = 0
    /\ e.latence_score = 0
    /\ e.aveu_ignorance_score = 0
    /\ e.score_global = 0

\* C1: every benchmark record that carries an error (its error field is set) is
\* evaluated to five criterion scores and a global score of exactly 0, whatever its
\* answer, latency and question type, and the details keep the error message.
C1_ErrorScoresZero ==
    \A i \in 1..Len(evaluations) :
        benchmark_results[i].error.present =>
            /\ AllZero(evaluations[i])
            /\ evaluations[i].details = [error |-> benchmark_results[i].error]

\* 0.30*accuracy + 0.20*relevance + 0.20*hallucination + 0.15*latency + 0.15*ignorance
\* over the scores stored in an evaluation (thousandths), in units of 1/100000
StoredWeighted(e) ==
    30 * e.exactitude_score + 20 * e.pertinence_score + 20 * e.hallucination_score
      + 15 * e.latence_score + 15 * e.aveu_ignorance_score

\* the same weighted sum over the scores the five scorers return, before any rounding
UnroundedWeighted(c) ==
    FracAdd(FracMul(Frac(30, 100), c.exactitude.score),
      FracAdd(FracMul(Frac(20, 100), c.pertinence.score),
        FracAdd(FracMul(Frac(20, 100), c.hallucination.score),
          FracAdd(FracMul(Frac(15, 100), c.latence.score),
                  FracMul(Frac(15, 100), c.aveu_ignorance.score)))))

GlobalFromUnrounded(e, c) ==
    /\ e.score_global = Round3(UnroundedWeighted(c))
    /\ Abs(100 * e.score_global - StoredWeighted(e)) <= 100

\* C2: the stored global score of an evaluation is the weighted sum of the five
\* criterion scores as the scorers return them (before rounding), rounded to 3
\* decimals; it is within 0.001 of the weighted sum of the five stored scores.
C2_GlobalFromUnroundedScores ==
    \A i \in 1..Len(evaluations) :
        ~IsError(benchmark_results[i]) =>
            GlobalFromUnrounded(evaluations[i], Criteria(golden_index, benchmark_results[i]))

\* C2 as stated: the stored global score equals the weighted sum of the five stored
\* criterion scores, rounded to 3 decimals.
C2_GlobalFromStoredScores ==
    \A i \in 1..Len(evaluations) :
        evaluations[i].score_global = RoundDiv(StoredWeighted(evaluations[i]), 100)

\* an evaluation finding 2 keywords of 7 (0.286 stored): its global score is 0.577,
\* the stored scores give 0.578
C2_Witness ==
    \E i \in 1..Len(evaluations) :
        /\ ~IsError(benchmark_results[i])
        /\ evaluations[i].exactitude_score = 286
        /\ evaluations[i].score_global = 577
        /\ RoundDiv(StoredWeighted(evaluations[i]), 100) = 578

\* the index of the first evaluation of a strategy
FirstIndex(evals, strategy) ==
    CHOOSE k \in 1..Len(evals) :
        /\ evals[k].strategy = strategy
        /\ \A m \in 1..(k - 1) : evals[m].strategy /= strategy

\* the aggregate mapping lists the strategies in the order the evaluations first show them
FirstSeenOrder(scores, evals) ==
    \A i, j \in 1..Len(scores) :
        i < j => FirstIndex(evals, scores[i].strategy) < FirstIndex(evals, scores[j].strategy)

\* the recommendation names the first entry of the mapping whose global score is maximal
FirstMaximal(scores, recommendation) ==
    \E i \in 1..Len(scores) :
        /\ recommendation.strategie_recommandee = scores[i].strategy
        /\ recommendation.score = scores[i].score_global
        /\ \A j \in 1..Len(scores) : scores[j].score_global <= scores[i].score_global
        /\ \A j \in 1..(i - 1) : scores[j].score_global < scores[i].score_global

\* C3: generate_recommendation selects a strategy whose aggregate global score is
\* maximal, and among several strategies with the maximal score the one that comes
\* first in the aggregate mapping, which is in first-seen order of the evaluations.
C3_RecommendsFirstMaximal ==
    (report.written /\ report.content.scores_par_strategie /= <<>>) =>
        /\ FirstSeenOrder(report.content.scores_par_strategie, evaluations)
        /\ FirstMaximal(report.content.scores_par_strategie, report.content.recommandation)

\* two strategies with the same global score, strategy_b_rag seen first and recommended
C3_Witness ==
    /\ report.written
    /\ Len(report.content.scores_par_strategie) = 2
    /\ report.content.scores_par_strategie[1].strategy = "strategy_b_rag"
    /\ report.content.scores_par_strategie[1].score_global
         = report.content.scores_par_strategie[2].score_global
    /\ report.content.recommandation.strategie_recommandee = "strategy_b_rag"

\* C4: when there are no aggregates, no recommendation is produced or consumed
\* downstream: the report carries no recommendation and the summary does not read
\* the result as one.
C4_EmptyInputRejected ==
    (pc \in {"report_exported", "done", "exit_1"}
       /\ generate_strategy_scores(evaluations) = <<>>) =>
        /\ ~(report.written /\ HasKey(report.content, "recommandation"))
        /\ raised /= "KeyError"

\* C5: when the five weights do not sum to 1.0, the evaluator is never constructed.
C5_WeightsValidatedAtInit ==
    SumOfWeights(WEIGHTS) /= 100 => pc = "imported"

\* the score of the band a latency of n/d milliseconds falls in
LatencyBand(n, d) ==
    IF n <= 0 THEN Zero
    ELSE IF n < 500 * d THEN One
    ELSE IF n < 1000 * d THEN Frac(8, 10)
    ELSE IF n < 2000 * d THEN Frac(5, 10)
    ELSE Frac(2, 10)

\* C6: evaluate_latence scores a latency by fixed bands: latency <= 0 gives 0.0,
\* 0 < latency < 500 gives 1.0, 500 <= latency < 1000 gives 0.8, 1000 <= latency < 2000
\* gives 0.5 and latency >= 2000 gives 0.2 (499 -> 1.0, 500 -> 0.8, 999 -> 0.8,
\* 1999 -> 0.5, 2000 -> 0.2).
C6_LatencyBands ==
    call.fn = "evaluate_latence" =>
        /\ call.ret.score = LatencyBand(call.latency_ms.n, call.latency_ms.d)
        /\ call.latency_ms \in {Ms(-1), Ms(0)} => call.ret.score = Zero
        /\ call.latency_ms = Ms(499) => call.ret.score = One
        /\ call.latency_ms \in {Ms(500), Ms(999)} => call.ret.score = Frac(8, 10)
        /\ call.latency_ms = Ms(1999) => call.ret.score = Frac(5, 10)
        /\ call.latency_ms = Ms(2000) => call.ret.score = Frac(2, 10)

\* a latency of exactly 500 ms has been scored 0.8
C6_Witness ==
    /\ call.fn = "evaluate_latence"
    /\ call.latency_ms = Ms(500)
    /\ call.ret.score = Frac(8, 10)

\* the evaluations of a strategy
GroupOf(evals, strategy) == SelectSeq(evals, LAMBDA e : e.strategy = strategy)

\* the keys of an aggregate entry, each with the evaluation field it averages
MeanFields ==
    {<<"exactitude", "exactitude_score">>, <<"pertinence", "pertinence_score">>,
     <<"absence_hallucination", "hallucination_score">>, <<"latence", "latence_score">>,
     <<"aveu_ignorance", "aveu_ignorance_score">>, <<"score_global", "score_global">>}

\* the entry holds, for each score, the mean over the group to the nearest thousandth
RoundedMeans(entry, group) ==
    /\ entry.nombre_questions = Len(group)
    /\ Len(group) > 0
    /\ \A f \in MeanFields :
          2 * Abs(Len(group) * entry[f[1]] - SumOf(group, f[2])) <= Len(group)

\* the entry holds, for each score, the mean over the group exactly
ExactMeans(entry, group) ==
    /\ entry.nombre_questions = Len(group)
    /\ \A f \in MeanFields : Len(group) * entry[f[1]] = SumOf(group, f[2])

\* the aggregate mapping has one entry per strategy present in the evaluations
OneEntryPerStrategy(scores, evals) ==
    /\ {scores[i].strategy : i \in 1..Len(scores)} = {evals[k].strategy : k \in 1..Len(evals)}
    /\ \A i, j \in 1..Len(scores) : scores[i].strategy = scores[j].strategy => i = j

\* C7: for every strategy present in the evaluations, generate_strategy_scores reports
\* the arithmetic mean, rounded to 3 decimals, of each of the five criterion scores and
\* of the global score over exactly the evaluations of that strategy, with the group size.
C7_RoundedMeansPerStrategy ==
    report.written =>
        /\ OneEntryPerStrategy(report.content.scores_par_strategie, evaluations)
        /\ \A i \in 1..Len(report.content.scores_par_strategie) :
              RoundedMeans(report.content.scores_par_strategie[i],
                           GroupOf(evaluations, report.content.scores_par_strategie[i].strategy))

\* C7 as stated: the reported values are the arithmetic means themselves.
C7_ExactMeansPerStrategy ==
    report.written =>
        \A i \in 1..Len(report.content.scores_par_strategie) :
            ExactMeans(report.content.scores_par_strategie[i],
                       GroupOf(evaluations, report.content.scores_par_strategie[i].strategy))

\* a strategy with three evaluations of global scores 1.0, 0.0 and 0.0 is reported 0.333
C7_Witness ==
    /\ report.written
    /\ \E i \in 1..Len(report.content.scores_par_strategie) :
          /\ report.content.scores_par_strategie[i].nombre_questions = 3
          /\ SumOf(GroupOf(evaluations, report.content.scores_par_strategie[i].strategy),
                   "score_global") = 1000
          /\ report.content.scores_par_strategie[i].score_global = 333

\* the question a record carries itself, and the empty text when it carries none
OwnQuestion(result) == IF result.question.present THEN result.question.text ELSE <<>>

\* the evaluation of a record scored against no expected keyword, an empty expected
\* summary and the given question
ScoredWithoutGolden(e, result, question) ==
    /\ e.exactitude_score = 1000
    /\ e.details.exactitude = [message |-> "Pas de mots-clés à vérifier"]
    /\ e.pertinence_score
         = Round3(evaluate_pertinence(result.answer, question, result.question_type).score)
    /\ e.hallucination_score
         = Round3(evaluate_hallucination(result.answer, <<>>, result.question_type).score)

\* C8: a record whose question_id is not in the golden set is evaluated without
\* failure, with the expected keywords and the expected summary treated as empty (so
\* accuracy is 1.0) and with the question taken from the record itself (empty when
\* the record carries none).
C8_UnknownIdUsesOwnQuestion ==
    /\ pc = "evaluated" => Len(evaluations) = Len(benchmark_results)
    /\ \A i \in 1..Len(evaluations) :
          (benchmark_results[i].question_id \notin DOMAIN golden_index
             /\ ~IsError(benchmark_results[i])) =>
              ScoredWithoutGolden(evaluations[i], benchmark_results[i],
                                  OwnQuestion(benchmark_results[i]))

\* C8 as stated: such a record is scored with the question treated as empty too.
C8_UnknownIdEmptyQuestion ==
    \A i \in 1..Len(evaluations) :
        (benchmark_results[i].question_id \notin DOMAIN golden_index
           /\ ~IsError(benchmark_results[i])) =>
            ScoredWithoutGolden(evaluations[i], benchmark_results[i], <<>>)

\* a record of unknown id that carries a question has been evaluated, and its
\* relevance is not the one an empty question gives
C8_Witness ==
    \E i \in 1..Len(evaluations) :
        /\ benchmark_results[i].question_id = UnknownId
        /\ benchmark_results[i].question = Some(QuestionMairie)
        /\ evaluations[i].exactitude_score = 1000
        /\ evaluations[i].pertinence_score
             /= Round3(evaluate_pertinence(benchmark_results[i].answer, <<>>,
                                           benchmark_results[i].question_type).score)

\* C9: the ignorance detector returns true whenever a pattern of IGNORANCE_PATTERNS
\* matches anywhere in the answer text, for every pattern of the list.
C9_EveryPatternDetected ==
    call.fn = "_detect_ignorance" =>
        \A i \in 1..Len(IGNORANCE_PATTERNS) :
            Search(IGNORANCE_PATTERNS[i], call.answer) => call.ret = TRUE

\* whether the question has no word left once the stop words are removed
NoNonStopWord(question) == SetOf(Split(normalize_text(question))) \ stop_words = {}

\* the rules of evaluate_pertinence in their order, for an answer that is an ignorance
\* admission or not
PertinenceRules(score, answer, question, question_type, admission) ==
    /\ (question_type = "hors_sujet" /\ admission) => score = One
    /\ (question_type = "hors_sujet" /\ ~admission) => score = Frac(2, 10)
    /\ (question_type /= "hors_sujet" /\ admission) => score = Frac(3, 10)
    /\ (question_type /= "hors_sujet" /\ ~admission
          /\ (answer = <<>> \/ Len(Strip(answer)) < 10)) => score = Frac(1, 10)
    /\ (question_type /= "hors_sujet" /\ ~admission
          /\ ~(answer = <<>> \/ Len(Strip(answer)) < 10)
          /\ NoNonStopWord(question)) => score = Frac(7, 10)

\* C10: evaluate_pertinence applies its rules in this order: an out-of-scope question
\* scores 1.0 for an ignorance admission and 0.2 otherwise (an empty answer included);
\* an in-scope question scores 0.3 for an ignorance admission, tested before the
\* length; otherwise 0.1 for an answer that is empty or shorter than 10 characters
\* once trimmed; otherwise 0.7 for a question with no non-stop word left.
C10_PertinenceRuleOrder ==
    call.fn = "evaluate_pertinence" =>
        PertinenceRules(call.ret.score, call.answer, call.question, call.question_type,
                        _detect_ignorance(call.answer))

\* an in-scope ignorance admission of 9 characters has been scored 0.3, not 0.1
C10_Witness ==
    /\ call.fn = "evaluate_pertinence"
    /\ call.answer = AnsDesolePas
    /\ Len(Strip(call.answer)) < 10
    /\ call.question_type = "normal"
    /\ call.ret.score = Frac(3, 10)

\* the words of a text once normalized
WordsOf(text) == SetOf(Split(normalize_text(text)))

\* the share of the non-stop words of the question that also occur in the answer
OverlapShare(answer, question) ==
    Frac(Cardinality({w \in WordsOf(question) \ stop_words : w \in WordsOf(answer)}),
         Cardinality(WordsOf(question) \ stop_words))

\* clamp(0.5*overlap_ratio + 0.5*min(1, len(answer)/100), 0.3, 1.0)
ClampedRelevance(answer, question) ==
    FracMax(Frac(3, 10),
            FracMin(One, FracAdd(FracMul(Frac(1, 2), OverlapShare(answer, question)),
                                 FracMul(Frac(1, 2), FracMin(One, Frac(Len(answer), 100))))))

\* the case of C11: an in-scope answer of at least 10 characters that is no ignorance
\* admission, for a question with at least one non-stop word
OverlapCase ==
    /\ call.fn = "evaluate_pertinence"
    /\ call.question_type /= "hors_sujet"
    /\ ~_detect_ignorance(call.answer)
    /\ Len(Strip(call.answer)) >= 10
    /\ ~NoNonStopWord(call.question)

\* C11: for an in-scope, non-ignorance answer of at least 10 characters and a question
\* with at least one non-stop word, the relevance score is
\* clamp(0.5*overlap_ratio + 0.5*min(1, len(answer)/100), 0.3, 1.0), overlap_ratio being
\* the share of the question's non-stop words that occur in the answer; it lies
\* between 0.3 and 1.0.
C11_RelevanceIsClampedOverlap ==
    OverlapCase =>
        /\ call.ret.score = ClampedRelevance(call.answer, call.question)
        /\ ~FracLess(call.ret.score, Frac(3, 10))
        /\ ~FracLess(One, call.ret.score)

\* an answer of 28 characters sharing no word with the question (0.14 before the
\* clamp) has been scored 0.3
C11_Witness ==
    /\ OverlapCase
    /\ call.answer = AnsMeteo
    /\ call.question = QuestionActe
    /\ OverlapShare(call.answer, call.question) = Zero
    /\ call.ret.score = Frac(3, 10)

\* the suspicious matches (phone number, bare domain, URL) of the lowercased answer,
\* pattern by pattern
SuspiciousMatches(answer) ==
    FindAll(suspicious_patterns[1], Lower(answer))
      \o FindAll(suspicious_patterns[2], Lower(answer))
      \o FindAll(suspicious_patterns[3], Lower(answer))

\* the suspicious matches the normalized expected summary does not contain
WarningsFor(answer, expected_summary) ==
    SelectSeq(SuspiciousMatches(answer),
              LAMBDA match : ~Contains(normalize_text(expected_summary), normalize_text(match)))

\* max(0.3, 0.85 - 0.15 * warning_count)
PenalizedScore(warning_count) ==
    FracMax(Frac(3, 10), [n |-> 85 - 15 * warning_count, d |-> 100])

\* C12: evaluate_hallucination scores an out-of-scope question 1.0 for an ignorance
\* admission and 0.3 otherwise; any other question scores
\* max(0.3, 0.85 - 0.15 * warning_count), with one warning per suspicious match of the
\* answer that the normalized expected summary does not contain: 0 warnings give 0.85,
\* 4 or more give 0.3.
C12_HallucinationScore ==
    call.fn = "evaluate_hallucination" =>
        IF call.question_type = "hors_sujet"
        THEN call.ret.score = IF _detect_ignorance(call.answer) THEN One ELSE Frac(3, 10)
        ELSE /\ call.ret.details.warnings = WarningsFor(call.answer, call.expected)
             /\ FracLess(call.ret.score, PenalizedScore(Len(call.ret.details.warnings))) = FALSE
             /\ FracLess(PenalizedScore(Len(call.ret.details.warnings)), call.ret.score) = FALSE
             /\ Len(call.ret.details.warnings) = 0 => call.ret.score = Frac(85, 100)
             /\ Len(call.ret.details.warnings) >= 4 => call.ret.score = Frac(3, 10)

\* an in-scope answer with four suspicious matches, one of them contained in the
\* expected summary, has three warnings and is scored 0.40
C12_Witness ==
    /\ call.fn = "evaluate_hallucination"
    /\ call.question_type = "normal"
    /\ call.answer = AnsManyWarnings
    /\ call.expected = SummarySite
    /\ Len(SuspiciousMatches(call.answer)) = 4
    /\ Len(call.ret.details.warnings) = 3
    /\ call.ret.score = Frac(40, 100)

\* an in-scope answer with four warnings has been scored 0.3
C12_WitnessFloor ==
    /\ call.fn = "evaluate_hallucination"
    /\ call.question_type = "normal"
    /\ Len(call.ret.details.warnings) = 4
    /\ call.ret.score = Frac(3, 10)

\* the positions of the expected keywords whose normalized form is a substring of the
\* normalized answer
FoundKeywords(answer, expected_keywords) ==
    {i \in 1..Len(expected_keywords) :
        Contains(normalize_text(answer), normalize_text(expected_keywords[i]))}

\* C13: evaluate_exactitude returns exactly 1.0 when the expected-keyword list is empty,
\* for any answer; otherwise it returns found/total, found being the number of expected
\* keywords whose normalized form is a substring of the normalized answer: 1.0 when
\* all are present, 0.0 when none is.
C13_ExactitudeIsFoundOverTotal ==
    call.fn = "evaluate_exactitude" =>
        IF call.expected = <<>>
        THEN call.ret.score = One
        ELSE /\ call.ret.score.n * Len(call.expected)
                  = Cardinality(FoundKeywords(call.answer, call.expected)) * call.ret.score.d
             /\ FoundKeywords(call.answer, call.expected) = 1..Len(call.expected)
                  => call.ret.score = One
             /\ FoundKeywords(call.answer, call.expected) = {} => call.ret.score = Zero

\* an answer holding 2 of the 7 expected keywords has been scored 2/7
C13_Witness ==
    /\ call.fn = "evaluate_exactitude"
    /\ call.answer = AnsPasseport
    /\ call.expected = KeywordsPasseport
    /\ Cardinality(FoundKeywords(call.answer, call.expected)) = 2
    /\ call.ret.score = [n |-> 2, d |-> 7]

\* an answer holding both expected keywords, one of them written with punctuation
\* that normalization removes, has been scored 1.0
C13_WitnessAll ==
    /\ call.fn = "evaluate_exactitude"
    /\ call.answer = AnsServicePublic
    /\ call.expected = KeywordsActe
    /\ call.ret.score = One

\* C14: evaluate_aveu_ignorance returns 1.0 for every question type other than
\* out-of-scope, whatever the answer; for an out-of-scope question it returns 1.0 if
\* an ignorance admission is detected in the answer and 0.0 otherwise.
C14_IgnoranceAppropriateness ==
    call.fn = "evaluate_aveu_ignorance" =>
        /\ call.question_type /= "hors_sujet" => call.ret.score = One
        /\ (call.question_type = "hors_sujet" /\ _detect_ignorance(call.answer))
             => call.ret.score = One
        /\ (call.question_type = "hors_sujet" /\ ~_detect_ignorance(call.answer))
             => call.ret.score = Zero

\* an in-scope answer without any ignorance admission has been scored 1.0
C14_Witness ==
    /\ call.fn = "evaluate_aveu_ignorance"
    /\ call.question_type = "normal"
    /\ call.answer = AnsMeteo
    /\ ~_detect_ignorance(call.answer)
    /\ call.ret.score = One

\* a stored score (thousandths) lies in [0, 1]
InUnitInterval(score) == 0 <= score /\ score <= 1000

OnePerRecordInOrder(evals, results) ==
    /\ Len(evals) <= Len(results)
    /\ \A i \in 1..Len(evals) :
          /\ evals[i].question_id = results[i].question_id
          /\ evals[i].strategy = results[i].strategy

\* C16: after run_evaluation the evaluation list holds exactly one evaluation per
\* benchmark record, in the order of the records, the i-th evaluation carrying the
\* question_id and strategy of the i-th record; the exported report contains this
\* full list, each evaluation with its details, and its total_evaluations is the
\* length of the list.
C16_OneEvaluationPerRecord ==
    /\ OnePerRecordInOrder(evaluations, benchmark_results)
    /\ pc \notin {"constructed", "run_evaluation"} =>
          Len(evaluations) = Len(benchmark_results)
    /\ report.written =>
          /\ report.content.evaluations_detaillees = evaluations
          /\ report.content.metadata.total_evaluations = Len(benchmark_results)
          /\ \A i \in 1..Len(evaluations) :
                HasKey(report.content.evaluations_detaillees[i], "details")

\* a report has been written for three records of two strategies, a record in error
\* among them
C16_Witness ==
    /\ report.written
    /\ Len(benchmark_results) = 3
    /\ Len(report.content.evaluations_detaillees) = 3
    /\ benchmark_results[1].strategy /= benchmark_results[2].strategy
    /\ benchmark_results[1].question_id /= benchmark_results[3].question_id
    /\ \E i \in 1..3 : IsError(benchmark_results[i])

\* the analysis of a strategy classifies the five non-global criteria of its aggregate
\* entry, and nothing else
ClassifiedByThresholds(analysis, entry) ==
    /\ analysis.strategy = entry.strategy
    /\ SetOf(analysis.points_forts) \cup SetOf(analysis.points_faibles) \subseteq SetOf(Criterions)
    /\ SetOf(analysis.points_forts) \cap SetOf(analysis.points_faibles) = {}
    /\ \A c \in SetOf(Criterions) :
          /\ c \in SetOf(analysis.points_forts) <=> entry[c] >= 800
          /\ c \in SetOf(analysis.points_faibles) <=> entry[c] < 500

\* C17: for every strategy, generate_recommendation classifies each of the five
\* non-global criteria as a strength if its aggregate value is >= 0.8, as a weakness if
\* it is < 0.5, and as neither in [0.5, 0.8); the global score and the question count
\* are never classified, and no criterion is both.
C17_StrengthsAndWeaknesses ==
    (report.written /\ report.content.scores_par_strategie /= <<>>) =>
        /\ SetOf(Criterions)
             = {"exactitude", "pertinence", "absence_hallucination", "latence", "aveu_ignorance"}
        /\ Len(report.content.recommandation.analyse_par_strategie)
             = Len(report.content.scores_par_strategie)
        /\ \A i \in 1..Len(report.content.scores_par_strategie) :
              ClassifiedByThresholds(report.content.recommandation.analyse_par_strategie[i],
                                     report.content.scores_par_strategie[i])

\* a strategy whose latency aggregate is exactly 0.8 has it as a strength; another one
\* whose accuracy aggregate is exactly 0.5 has it as neither, and has a weakness
C17_Witness ==
    /\ report.written
    /\ Len(report.content.scores_par_strategie) = 2
    /\ \E i, j \in 1..2 :
          /\ report.content.scores_par_strategie[i].latence = 800
          /\ "latence" \in SetOf(report.content.recommandation.analyse_par_strategie[i].points_forts)
          /\ report.content.scores_par_strategie[j].exactitude = 500
          /\ "exactitude" \notin
                SetOf(report.content.recommandation.analyse_par_strategie[j].points_forts)
                  \cup SetOf(report.content.recommandation.analyse_par_strategie[j].points_faibles)
          /\ "pertinence" \in
                SetOf(report.content.recommandation.analyse_par_strategie[j].points_faibles)

\* the evaluation of one record by an evaluator that has evaluated nothing else
EvaluatedAlone(result) ==
    evaluate_single_result(GoldenIndex(GoldenSet), SOURCE_WEIGHTS, result)

\* C18: the evaluation of one benchmark record depends only on that record and its
\* golden item: it is the same whatever other records were evaluated before, after or
\* in between, in whatever order; the golden index is only read during the run.
C18_EvaluationDependsOnRecordOnly ==
    [][/\ golden_index' = golden_index
       /\ golden_index = GoldenIndex(GoldenSet)
       /\ evaluations' /= evaluations =>
             /\ evaluations' = Append(evaluations, EvaluatedAlone(benchmark_results[idx + 1]))
             /\ \A i \in 1..Len(evaluations) :
                   benchmark_results[i] = benchmark_results[idx + 1] =>
                       evaluations[i] = evaluations'[idx + 1]]_vars

\* the same record has been evaluated first and third, a record of the same question
\* with another answer in between, and both evaluations are equal
C18_Witness ==
    /\ Len(evaluations) = 3
    /\ benchmark_results[1] = benchmark_results[3]
    /\ benchmark_results[2] /= benchmark_results[1]
    /\ benchmark_results[2].question_id = benchmark_results[1].question_id
    /\ evaluations[2].score_global /= evaluations[1].score_global
    /\ evaluations[1] = evaluations[3]
    /\ evaluations[3] = EvaluatedAlone(benchmark_results[3])

\* the aggregates cover every record of the run: the per-strategy question counts add
\* up to the number of benchmark records
CoversEveryRecord(scores) ==
    SumOf(scores, "nombre_questions") = Len(benchmark_results)

\* C19: per-strategy means, and the recommendation and report built from them, are
\* computed only after every benchmark record of the run has been evaluated: no
\* aggregate is computed over a partial or not-yet-started evaluation list.
C19_AggregatesAfterAllEvaluations ==
    [][/\ (report' /= report \/ summary' /= summary) =>
             /\ pc \notin {"constructed", "run_evaluation"}
             /\ idx = Len(benchmark_results)
             /\ Len(evaluations) = Len(benchmark_results)
             /\ evaluations' = evaluations
       /\ report' /= report =>
             /\ report'.content.scores_par_strategie = generate_strategy_scores(evaluations)
             /\ CoversEveryRecord(report'.content.scores_par_strategie)
       /\ summary' /= summary => CoversEveryRecord(summary'.scores)
       /\ (report.written \/ summary.printed) => evaluations' = evaluations]_vars

\* the report and the summary of a run of three records of two strategies have been
\* produced, and their aggregates count the three records
C19_Witness ==
    /\ report.written
    /\ summary.printed
    /\ Len(benchmark_results) = 3
    /\ Len(evaluations) = 3
    /\ Len(report.content.scores_par_strategie) = 2
    /\ CoversEveryRecord(report.content.scores_par_strategie)
    /\ summary.scores = report.content.scores_par_strategie

\* lowercase alphanumeric words separated by single spaces, no space at either end
SingleSpacedLowerAlnum(text) ==
    /\ \A i \in 1..Len(text) : text[i] \in LowerLetters \cup Digits \cup {" "}
    /\ text /= <<>> => (text[1] /= " " /\ text[Len(text)] /= " ")
    /\ \A i \in 1..(Len(text) - 1) : ~(text[i] = " " /\ text[i + 1] = " ")

\* C20: normalize_text replaces every character that is neither alphanumeric nor
\* whitespace by a space, so its output contains only lowercase alphanumeric characters
\* separated by single spaces, with no leading or trailing space (empty input gives
\* empty output).
C20_OutputIsSingleSpacedAlnum ==
    call.fn = "normalize_text" =>
        /\ SingleSpacedLowerAlnum(call.ret)
        /\ call.text = <<>> => call.ret = <<>>

\* C21: normalize_text is idempotent: for every text x,
\* normalize_text(normalize_text(x)) = normalize_text(x).
C21_NormalizeIsIdempotent ==
    call.fn = "normalize_text" => normalize_text(call.ret) = call.ret

\* a text that normalize_text changes (case, accent, punctuation and spaces) has been
\* normalised, and normalising the outcome again gives the same text
C21_Witness ==
    /\ call.fn = "normalize_text"
    /\ call.text = TextRendezVous
    /\ call.ret /= call.text
    /\ call.ret /= <<>>
    /\ normalize_text(call.ret) = call.ret

\* whether the evaluation is the one of a record treated as an error: its details hold
\* the error and nothing else
TreatedAsError(e) == HasKey(e.details, "error")

\* C27: an evaluation of a record without error always has a strictly positive global
\* score (at least 0.1): the global score of an evaluation is 0.0 if and only if the
\* record was treated as an error.
C27_ZeroGlobalIffError ==
    \A i \in 1..Len(evaluations) :
        /\ TreatedAsError(evaluations[i]) <=> IsError(benchmark_results[i])
        /\ evaluations[i].score_global = 0 <=> TreatedAsError(evaluations[i])
        /\ ~TreatedAsError(evaluations[i]) => evaluations[i].score_global >= 100
        /\ benchmark_results[i].error = None => evaluations[i].score_global >= 100

\* a record without error has got the lowest global score there is, 0.1: an
\* out-of-scope question answered without an ignorance admission, no keyword found,
\* no valid latency
C27_Witness ==
    /\ Len(evaluations) = 1
    /\ benchmark_results[1].error = None
    /\ ~TreatedAsError(evaluations[1])
    /\ evaluations[1].exactitude_score = 0
    /\ evaluations[1].latence_score = 0
    /\ evaluations[1].aveu_ignorance_score = 0
    /\ evaluations[1].score_global = 100

\* the relevance, hallucination-absence and ignorance-appropriateness scores of an
\* evaluation
IgnoranceDependent(e) == <<e.pertinence_score, e.hallucination_score, e.aveu_ignorance_score>>

\* C28: for an out-of-scope question without error, the three ignorance-dependent
\* criteria always agree: either relevance = 1.0, hallucination-absence = 1.0 and
\* ignorance-appropriateness = 1.0 (ignorance admission detected), or relevance = 0.2,
\* hallucination-absence = 0.3 and ignorance-appropriateness = 0.0; no other
\* combination is reachable.
C28_OutOfScopeCriteriaAgree ==
    \A i \in 1..Len(evaluations) :
        (benchmark_results[i].question_type = "hors_sujet" /\ ~IsError(benchmark_results[i])) =>
            IF _detect_ignorance(benchmark_results[i].answer)
            THEN IgnoranceDependent(evaluations[i]) = <<1000, 1000, 1000>>
            ELSE IgnoranceDependent(evaluations[i]) = <<200, 300, 0>>

\* an out-of-scope record whose answer admits ignorance has got the three scores 1.0
C28_Witness ==
    /\ Len(evaluations) = 1
    /\ benchmark_results[1].question_type = "hors_sujet"
    /\ benchmark_results[1].error = None
    /\ _detect_ignorance(benchmark_results[1].answer)
    /\ IgnoranceDependent(evaluations[1]) = <<1000, 1000, 1000>>

\* an out-of-scope record with a factual answer has got the scores 0.2, 0.3 and 0.0
C28_WitnessFactual ==
    /\ Len(evaluations) = 1
    /\ benchmark_results[1].question_type = "hors_sujet"
    /\ benchmark_results[1].error = None
    /\ benchmark_results[1].answer = AnsPasseport
    /\ IgnoranceDependent(evaluations[1]) = <<200, 300, 0>>

\* C29: run_evaluation is repeatable: calling it any number of times on the same
\* evaluator leaves the evaluation list equal to the result of a single call (the list
\* is reset, never accumulated), and it never modifies the benchmark records or the
\* golden index.
C29_RunEvaluationRepeatable ==
    /\ [](pc = "evaluated" =>
            /\ Len(evaluations) = Len(benchmark_results)
            /\ \A i \in 1..Len(evaluations) :
                  evaluations[i] = EvaluatedAlone(benchmark_results[i]))
    /\ [][/\ benchmark_results' = benchmark_results
          /\ golden_index' = golden_index
          /\ (pc = "evaluated" /\ pc' = "run_evaluation") => evaluations' = <<>>]_vars

\* a second call of run_evaluation on three records has returned, and the list holds
\* the three evaluations of one call
C29_Witness ==
    /\ pc = "evaluated"
    /\ call = [fn |-> "run_evaluation", count |-> 2]
    /\ Len(benchmark_results) = 3
    /\ Len(evaluations) = 3
    /\ evaluations[3] = EvaluatedAlone(benchmark_results[3])

\* the groups of the aggregate are a partition of the evaluations by strategy
PartitionByStrategy(scores, evals) ==
    /\ \A s \in Strategies :
          (\E i \in 1..Len(scores) : scores[i].strategy = s)
            <=> (\E k \in 1..Len(evals) : evals[k].strategy = s)
    /\ \A i, j \in 1..Len(scores) : scores[i].strategy = scores[j].strategy => i = j
    /\ \A i \in 1..Len(scores) :
          /\ scores[i].nombre_questions > 0
          /\ scores[i].nombre_questions
               = Cardinality({k \in 1..Len(evals) : evals[k].strategy = scores[i].strategy})
    /\ SumOf(scores, "nombre_questions") = Len(evals)
    /\ evals = <<>> => scores = <<>>

\* C30: generate_strategy_scores partitions the evaluations by strategy: a strategy
\* appears in the output if and only if at least one evaluation has that strategy,
\* every reported count is > 0, and the counts of all strategies sum to the total
\* number of evaluations; an empty evaluation list gives an empty mapping without any
\* division by zero.
C30_ScoresPartitionEvaluations ==
    /\ report.written => PartitionByStrategy(report.content.scores_par_strategie, evaluations)
    /\ summary.printed => PartitionByStrategy(summary.scores, evaluations)

\* the aggregate of three evaluations of two strategies, the second strategy between
\* two evaluations of the first, has two groups, of two and of one evaluation
C30_Witness ==
    /\ report.written
    /\ Len(evaluations) = 3
    /\ evaluations[1].strategy = evaluations[3].strategy
    /\ evaluations[2].strategy /= evaluations[1].strategy
    /\ Len(report.content.scores_par_strategie) = 2
    /\ report.content.scores_par_strategie[1].nombre_questions = 2
    /\ report.content.scores_par_strategie[2].nombre_questions = 1

\* the aggregate of no evaluation is the empty mapping
C30_WitnessEmpty ==
    /\ report.written
    /\ evaluations = <<>>
    /\ report.content.scores_par_strategie = <<>>

\* the k-th result is the one of the k-th pair in question-major order
PairInOrder(k, result) ==
    /\ result.question_id = call.golden_set[((k - 1) \div Len(call.strategies)) + 1].id
    /\ result.strategy = call.strategies[((k - 1) % Len(call.strategies)) + 1]

\* C24: run_benchmark produces exactly one BenchmarkResult per (golden question,
\* initialised strategy) pair, len(results) = |golden_set| * |strategies|, in
\* question-major order, and a strategy call that raises for one pair yields an error
\* record (empty answer, latency 0, error set) for that pair without stopping the
\* remaining pairs.
C24_OneResultPerPair ==
    /\ Len(benchmark_results) = Len(call.outcomes)
    /\ pc = "benchmark_done" =>
          Len(benchmark_results) = Len(call.golden_set) * Len(call.strategies)
    /\ \A k \in 1..Len(benchmark_results) :
          /\ PairInOrder(k, benchmark_results[k])
          /\ call.outcomes[k].kind = "raise" =>
                /\ benchmark_results[k].answer = <<>>
                /\ benchmark_results[k].latency_ms = Ms(0)
                /\ benchmark_results[k].error = Some(call.outcomes[k].error.text)
          /\ call.outcomes[k].kind /= "raise" => benchmark_results[k].error = None

\* a benchmark of two questions and three strategies is over: the second call raised,
\* its pair has an error record, and the four pairs after it have their results
C24_Witness ==
    /\ pc = "benchmark_done"
    /\ Len(call.golden_set) = 2
    /\ Len(call.strategies) = 3
    /\ Len(benchmark_results) = 6
    /\ call.outcomes[2].kind = "raise"
    /\ benchmark_results[2].error = Some(ErrTimeout)
    /\ benchmark_results[2].answer = <<>>
    /\ benchmark_results[3].error = None
    /\ benchmark_results[4].question_id = "HS001"
    /\ benchmark_results[4].strategy = "strategy_a_llm"
    /\ benchmark_results[6].strategy = "strategy_c_qa"

\* the evaluation the evaluator makes of a record the runner has stored
EvaluationOfStored(result) == evaluate_single_result(golden_index, WEIGHTS, result)

\* C26: every failed generation attempt ends up with an all-zero evaluation: for any
\* strategy call that fails in run_single_question (the call raises with any exception
\* message, including an empty one, or the strategy returns a response carrying an
\* error), the record stored by the runner is treated as an error by
\* evaluate_single_result and gets global score 0.0.
C26_FailedAttemptScoresZero ==
    \A k \in 1..Len(benchmark_results) :
        (call.fn = "run_benchmark" /\ call.outcomes[k].error /= None) =>
            /\ TreatedAsError(EvaluationOfStored(benchmark_results[k]))
            /\ EvaluationOfStored(benchmark_results[k]).score_global = 0

\* the results are ordered by non-increasing score, and each pairs an entry of the base
\* with its similarity, no entry twice
SortedPairsOfBase(results, faq_base, similarities) ==
    /\ \A i \in 1..(Len(results) - 1) : ~FracLess(results[i].score, results[i + 1].score)
    /\ \E p \in [1..Len(results) -> 1..Len(faq_base)] :
          /\ \A i, j \in 1..Len(results) : p[i] = p[j] => i = j
          /\ \A i \in 1..Len(results) :
                /\ results[i].faq = faq_base[p[i]]
                /\ results[i].score = similarities[p[i]]

\* C22 as stated: for any question and any FAQ base, _search_similar of the RAG
\* strategy returns exactly top_k results, ordered by non-increasing similarity score,
\* each result pairing a FAQ entry of the base with its score.
C22_ExactlyTopK ==
    call.ret.fn = "_search_similar" =>
        /\ Len(call.ret.results) = call.top_k
        /\ SortedPairsOfBase(call.ret.results, call.faq_base, call.ret.similarities)

\* C22, amended: for any question, a non-empty FAQ base and top_k >= 0,
\* _search_similar returns min(top_k, number of FAQ entries) results, ordered by
\* non-increasing similarity score, each result pairing a FAQ entry of the base with
\* its score.
C22_AtMostTopK ==
    call.ret.fn = "_search_similar" =>
        /\ Len(call.ret.results)
             = (IF call.top_k < Len(call.faq_base) THEN call.top_k ELSE Len(call.faq_base))
        /\ SortedPairsOfBase(call.ret.results, call.faq_base, call.ret.similarities)

\* a search with top_k = 3 in a base of two entries has returned the two entries, the
\* second one first
C22_Witness ==
    /\ call.ret.fn = "_search_similar"
    /\ call.top_k = 3
    /\ Len(call.faq_base) = 2
    /\ Len(call.ret.results) = 2
    /\ call.ret.results[1].faq = call.faq_base[2]
    /\ FracLess(call.ret.results[2].score, call.ret.results[1].score)

\* a search with top_k = 2 in a base of three entries has returned two of them
C22_WitnessTopK ==
    /\ call.ret.fn = "_search_similar"
    /\ call.top_k = 2
    /\ Len(call.faq_base) = 3
    /\ Len(call.ret.results) = 2
    /\ call.ret.results[1].score = call.ret.results[2].score

\* C23: FAQService.get_faq_by_id returns the FAQ entry whose id equals the requested id
\* when one exists in the loaded base, and None when none exists; the /faq/{faq_id}
\* route answers 404 exactly in the None case, and the FAQ base is left unchanged by
\* every lookup.
C23_LookupById ==
    /\ [](call.ret.fn = "get_faq_by_id" =>
            /\ call.ret.faq.found
                 <=> (\E i \in 1..Len(call.faq_base) : call.faq_base[i].id = call.ret.faq_id)
            /\ call.ret.faq.found =>
                  /\ call.ret.faq.faq.id = call.ret.faq_id
                  /\ call.ret.faq.faq \in SetOf(call.faq_base)
            /\ call.ret.response.status = 404 <=> ~call.ret.faq.found
            /\ call.ret.response.status = 200 => call.ret.response.id = call.ret.faq_id)
    /\ [][(call.fn = "FAQService" /\ call'.ret.fn = "get_faq_by_id") =>
             call'.faq_base = call.faq_base]_vars

\* a lookup of an id of the base has returned its entry, the third of the base
C23_Witness ==
    /\ call.ret.fn = "get_faq_by_id"
    /\ Len(call.faq_base) = 3
    /\ call.ret.faq.found
    /\ call.ret.faq.faq = call.faq_base[3]
    /\ call.ret.response.status = 200

\* a lookup of an id the base does not have has returned None, and the route 404
C23_WitnessNotFound ==
    /\ call.ret.fn = "get_faq_by_id"
    /\ call.ret.faq_id = UnknownId
    /\ ~call.ret.faq.found
    /\ call.ret.response.status = 404

\* the best similarity of the list _search_similar returned, 0 for the empty list
BestScore(similar_faqs) == IF similar_faqs /= <<>> THEN similar_faqs[1].score ELSE Zero

\* the fixed answer: no source, the best score as confidence, and no call of the LLM
NoInformation(out, similar_faqs) ==
    /\ out.response.answer = AnsPasTrouve
    /\ out.response.confidence = BestScore(similar_faqs)
    /\ out.response.sources = [given |-> TRUE, items |-> <<>>]
    /\ out.llm_calls = 0

\* the sources of the response are the retrieved FAQs, in their order
SourcesAreRetrieved(out, similar_faqs) ==
    /\ out.response.sources.given
    /\ Len(out.response.sources.items) = Len(similar_faqs)
    /\ \A i \in 1..Len(similar_faqs) :
          /\ out.response.sources.items[i].id = similar_faqs[i].faq.id
          /\ out.response.sources.items[i].question = similar_faqs[i].faq.question

ErrorResponse(out) ==
    /\ out.response.answer = AnsErreur
    /\ out.response.confidence = Zero
    /\ out.response.error /= None
    /\ ~out.response.sources.given

C25_WitnessBelow ==
    /\ call.ret.fn = "_generate_answer"
    /\ BestScore(call.ret.similar_faqs) = Frac(4999, 10000)
    /\ call.ret.out.response.answer = AnsPasTrouve
    /\ call.ret.out.llm_calls = 0

\* no FAQ found (top_k = 0): the fixed answer with confidence 0
C25_WitnessNoFaq ==
    /\ call.ret.fn = "_generate_answer"
    /\ call.ret.failure = "none"
    /\ call.ret.similar_faqs = <<>>
    /\ call.ret.out.response.answer = AnsPasTrouve
    /\ call.ret.out.response.confidence = Zero

\* the LLM raised on a best score above the threshold: one call, the error response
C25_WitnessRaise ==
    /\ call.ret.fn = "_generate_answer"
    /\ call.ret.failure = "llm"
    /\ ~FracLess(BestScore(call.ret.similar_faqs), call.confidence_threshold)
    /\ call.ret.out.llm_calls = 1
    /\ ErrorResponse(call.ret.out)
=============================================================================
